---- MODULE Spec2Model ----
(***************************************************************************)
(* A model of vibetrack's JSON-file record store (backend/storage.py), the *)
(* user creation built on it (backend/auth.py) and the activity handlers   *)
(* that append to it (backend/main.py).                                    *)
(*                                                                         *)
(* Each of the three files is one variable.  Every mutation in the code is *)
(* "load the whole file, change the copy, write the whole file back"; the  *)
(* load and the save are operators on a file value, and a handler is their *)
(* composition (one atomic action in the sequential specifications, one    *)
(* action per file access in the concurrent ones).                         *)
(*                                                                         *)
(* Python's None / a missing dict key is the empty sequence <<>>, a        *)
(* present value v is <<v>>.  Clock readings (datetime.utcnow().isoformat())*)
(* are naturals: isoformat strings of the same clock compare, as strings,  *)
(* in the order of the instants they name.  Timestamps that reach          *)
(* get_conversations are strings (some are supplied by the client), so     *)
(* there they are sequences of character codes compared lexicographically. *)
(***************************************************************************)
EXTENDS Integers, Sequences, FiniteSets, TLC

\* ------------------------------------------------------------------ bounds
\* The clock runs from 0 to MaxClock.
MaxClock == 1

None == <<>>
Some(x) == <<x>>

Min(a, b) == IF a <= b THEN a ELSE b

\* The usernames, e-mail addresses, passwords and display names requests carry.
Usernames == {"demo_user", "alice", "bob"}
Emails == {"a@x.io", "b@x.io"}
Passwords == {"pw-1"}
FullNames == {None, Some("N N")}

VARIABLES
    usersFile,   \* data/users.json
    now,         \* the wall clock
    lastCall,    \* the outcome of the last completed request
    callBit,     \* flips at every completed create_user request
    created,     \* history: the requests create_user answered with success
    uPc,         \* per worker process: where it is inside create_user
    uReq,        \* per worker process: the user_data of its create_user call
    uUsers,      \* per worker process: its in-memory users list
    uOverlap,    \* history: two create_user calls have been in progress at once
    rtX,         \* round trip: the list handed to save_users
    rtPc,        \* round trip: "start", "saved", "loaded" ("off": not running)
    rtLoaded,    \* round trip: what load_users returned
    convFile,    \* data/conversations.json
    catFile,     \* data/categories.json
    aPc,         \* per worker process: where it is inside its activity handler
    aOp,         \* per worker process: the handler it runs
    aRec,        \* per worker process: the record it is about to append
    aConvs,      \* per worker process: the conversations list it loaded
    aStats,      \* per worker process: the counters it loaded
    aStatus,     \* per worker process: the status its handler returned
    aRaced,      \* history: a process loaded while another had loaded and not saved
    convBase,    \* history: the activities collection at start-up
    callCount,   \* history: update_category_metadata calls made, per <<category, owner>>
    lastAt,      \* history: the timestamp of the latest call, per <<category, owner>>
    sLast,       \* the latest direct call of a storage function, and what it returned
    backupDir,   \* data/backups/<timestamp> of the latest backup_data call
    handed,      \* the user record the latest auth call returned to the HTTP layer
    conversation,         \* main.py's global: the voice session held, or None
    conversation_thread,  \* main.py's global: the thread started for it, or None
    sessions,    \* the Conversation objects created so far, each with its state
    threads      \* the threads started so far: "alive" or "done"

userVars == <<usersFile, created, uPc, uReq, uUsers, uOverlap>>
rtVars == <<rtX, rtPc, rtLoaded>>
actProcVars == <<aPc, aOp, aRec, aConvs, aStats, aStatus, aRaced, convBase>>
actVars == <<convFile, aPc, aOp, aRec, aConvs, aStats, aStatus, aRaced, convBase>>
catVars == <<catFile, callCount, lastAt>>
voiceVars == <<conversation, conversation_thread, sessions, threads>>
storeVars == <<sLast, backupDir, handed, voiceVars>>
vars == <<usersFile, now, lastCall, callBit, created, uPc, uReq, uUsers, uOverlap,
          rtX, rtPc, rtLoaded, convFile, catFile,
          aPc, aOp, aRec, aConvs, aStats, aStatus, aRaced, convBase, callCount, lastAt,
          sLast, backupDir, handed, conversation, conversation_thread, sessions, threads>>

\* ------------------------------------------------------- the users file
\* A file: absent, or holding a JSON document.  tag is the document's shape:
\* "dict" (an object with the single key `key`), "list" (a bare array) or
\* "invalid" (not JSON).
NoFile == [exists |-> FALSE, tag |-> "none", key |-> "", val |-> <<>>]

\* json.dump({"users": users}, f): the list goes into the envelope.
SaveUsersBare(file, users) == [exists |-> TRUE, tag |-> "list", key |-> "", val |-> users]
SaveUsers(file, users) == [exists |-> TRUE, tag |-> "dict", key |-> "users", val |-> users]

\* bcrypt.hashpw: an opaque value made from the password.
GetPasswordHash(password) == <<"bcrypt", password>>

\* The account load_users seeds when there is no users file.
DemoUser(t) ==
    [username |-> "demo_user", email |-> "demo@vibetrack.com",
     hashed_password |-> <<"bcrypt", "demo">>, created_at |-> t,
     full_name |-> None, last_login |-> None, is_demo |-> TRUE]

\* load_users at clock reading t: the list it returns and the file it leaves.
LoadUsersNoSeed(file, t) ==
    IF file.exists /\ file.tag = "dict" /\ file.key = "users"
    THEN [file |-> file, ret |-> file.val]
    ELSE [file |-> file, ret |-> <<>>]
LoadUsers(file, t) ==
    IF file.exists
    THEN IF file.tag = "dict" /\ file.key = "users"
         THEN [file |-> file, ret |-> file.val]
         ELSE [file |-> file, ret |-> <<>>]
    ELSE [file |-> SaveUsers(file, <<DemoUser(t)>>), ret |-> <<DemoUser(t)>>]

\* The first record of users whose username is the one asked for, or None.
FirstMatch(users, username) ==
    LET hits == {i \in 1..Len(users) : users[i].username = username}
    IN IF hits = {} THEN None
       ELSE Some(users[CHOOSE i \in hits : \A j \in hits : i <= j])

\* A lookup that finds nobody.
GetUserByUsernameBlind(file, t, username) ==
    [file |-> LoadUsers(file, t).file, ret |-> None]
\* get_user_by_username: a linear scan of load_users().
GetUserByUsername(file, t, username) ==
    LET ld == LoadUsers(file, t)
    IN [file |-> ld.file, ret |-> FirstMatch(ld.ret, username)]

\* The record create_user builds from user_data at clock reading t.
NewUser(req, t) ==
    [username |-> req.username, email |-> req.email,
     hashed_password |-> GetPasswordHash(req.password), created_at |-> t,
     full_name |-> req.full_name, last_login |-> None, is_demo |-> FALSE]

\* What the persisted users collection holds (what a reader of the file gets).
Persisted(file) == IF file.exists /\ file.tag = "dict" /\ file.key = "users"
                   THEN file.val ELSE <<>>

Requests == [username : Usernames, email : Emails, password : Passwords,
             full_name : FullNames]

Idle == [op |-> "none", username |-> "", status |-> 0, detail |-> ""]

\* ----------------------------------------- create_user, one call at a time
\* users.append(new_user) replaced by a list that forgets what was loaded.
AppendedUsersLost(users, new) == <<new>>
AppendedUsers(users, new) == Append(users, new)

\* create_user(req), run to completion.  now is the clock when the call starts
\* (a seeded demo account gets it), t2 the clock when new_user is built.
CreateUser(req, t2) ==
    LET chk == GetUserByUsername(usersFile, now, req.username)
    IN /\ t2 \in now..MaxClock
       /\ now' = t2
       /\ callBit' = 1 - callBit
       /\ UNCHANGED <<uPc, uReq, uUsers, uOverlap, rtVars, storeVars, actVars, catVars>>
       /\ IF chk.ret # None
          THEN \* raise ValueError -> HTTPException(400)
               /\ usersFile' = chk.file
               /\ lastCall' = [op |-> "create_user", username |-> req.username,
                               status |-> 400, detail |-> "Username already registered"]
               /\ UNCHANGED created
          ELSE LET new == NewUser(req, t2)
                   ld == LoadUsers(chk.file, t2)
               IN /\ usersFile' = SaveUsers(ld.file, AppendedUsers(ld.ret, new))
                  /\ lastCall' = [op |-> "create_user", username |-> req.username,
                                  status |-> 200, detail |-> ""]
                  /\ created' = Append(created, new)

\* Time passes.
Tick ==
    /\ now < MaxClock
    /\ now' = now + 1
    /\ UNCHANGED <<usersFile, lastCall, callBit, created, uPc, uReq, uUsers, uOverlap,
                   rtVars, storeVars, actVars, catVars>>

UProcs == {1, 2}
NoReq == [username |-> "", email |-> "", password |-> "", full_name |-> None]

\* The state of everything but the users file at start-up.
InitUserProcs ==
    /\ now = 0
    /\ lastCall = Idle
    /\ callBit = 0
    /\ created = <<>>
    /\ uPc = [p \in UProcs |-> "idle"]
    /\ uReq = [p \in UProcs |-> NoReq]
    /\ uUsers = [p \in UProcs |-> <<>>]
    /\ uOverlap = FALSE

InitRtOff ==
    /\ rtX = <<>>
    /\ rtPc = "off"
    /\ rtLoaded = <<>>

\* No storage function has been called directly, no backup has been made.
NoFiles == [users |-> NoFile, conversations |-> NoFile, categories |-> NoFile]
NoCall == [seq |-> 0, op |-> "none", arg |-> <<>>,
           outcome |-> [rd |-> "ok", wr |-> "ok", step |-> "none"], raised |-> FALSE,
           ret |-> [tag |-> "none", key |-> "", val |-> <<>>], wrote |-> FALSE,
           before |-> NoFiles]
NoDir == [exists |-> FALSE, users |-> NoFile, conversations |-> NoFile,
          categories |-> NoFile]

InitStore ==
    /\ sLast = NoCall
    /\ backupDir = NoDir
    /\ handed = None
    /\ conversation = None
    /\ conversation_thread = None
    /\ sessions = <<>>
    /\ threads = <<>>

\* The categories and owners update_category_metadata is called with.
CatNames == {"Work", "Health", "Social"}
CatOwners == {"alice", "bob"}
CatKeys == CatNames \X CatOwners

InitCatHistory ==
    /\ callCount = [k \in CatKeys |-> 0]
    /\ lastAt = [k \in CatKeys |-> 0]

AProcs == {1, 2}
NoRec == [kind |-> "none", id |-> None, user_id |-> None, timestamp |-> <<>>,
          category |-> None, raw_text |-> ""]

InitActProcs ==
    /\ aPc = [p \in AProcs |-> "idle"]
    /\ aOp = [p \in AProcs |-> "none"]
    /\ aRec = [p \in AProcs |-> NoRec]
    /\ aConvs = [p \in AProcs |-> <<>>]
    /\ aStats = [p \in AProcs |-> <<>>]
    /\ aStatus = [p \in AProcs |-> 0]
    /\ aRaced = FALSE

\* A fresh deployment: the data directory holds no file.
InitFiles ==
    /\ convFile = NoFile
    /\ catFile = NoFile
    /\ convBase = <<>>
    /\ InitActProcs
    /\ InitCatHistory
    /\ InitStore

Init ==
    /\ usersFile = NoFile
    /\ InitUserProcs
    /\ InitRtOff
    /\ InitFiles

NextUsers ==
    \/ \E req \in Requests, t2 \in 0..MaxClock : CreateUser(req, t2)
    \/ Tick

SpecUsers == Init /\ [][NextUsers]_vars

\* ------------------------- create_user in several worker processes at once
\* The requests the concurrent specification draws from.
ConcRequests == {r \in Requests : r.email = "a@x.io" /\ r.full_name = None}

\* create_user up to its duplicate check: get_user_by_username(username).
UCheck(p, req) ==
    LET chk == GetUserByUsername(usersFile, now, req.username)
    IN /\ uPc[p] = "idle"
       /\ usersFile' = chk.file
       /\ uOverlap' = (uOverlap \/ \E q \in UProcs \ {p} : uPc[q] # "idle")
       /\ UNCHANGED <<now, created, uUsers, rtVars, storeVars, actVars, catVars>>
       /\ IF chk.ret # None
          THEN /\ lastCall' = [op |-> "create_user", username |-> req.username,
                               status |-> 400, detail |-> "Username already registered"]
               /\ callBit' = 1 - callBit
               /\ UNCHANGED <<uPc, uReq>>
          ELSE /\ uPc' = [uPc EXCEPT ![p] = "checked"]
               /\ uReq' = [uReq EXCEPT ![p] = req]
               /\ UNCHANGED <<lastCall, callBit>>

\* new_user is built; users = load_users(); users.append(new_user).
ULoad(p) ==
    LET ld == LoadUsers(usersFile, now)
    IN /\ uPc[p] = "checked"
       /\ usersFile' = ld.file
       /\ uUsers' = [uUsers EXCEPT ![p] = AppendedUsers(ld.ret, NewUser(uReq[p], now))]
       /\ uPc' = [uPc EXCEPT ![p] = "loaded"]
       /\ UNCHANGED <<now, lastCall, callBit, created, uReq, uOverlap, rtVars, storeVars, actVars, catVars>>

\* save_users(users), and the call returns the new record.
USave(p) ==
    /\ uPc[p] = "loaded"
    /\ usersFile' = SaveUsers(usersFile, uUsers[p])
    /\ created' = Append(created, uUsers[p][Len(uUsers[p])])
    /\ lastCall' = [op |-> "create_user", username |-> uReq[p].username,
                    status |-> 200, detail |-> ""]
    /\ callBit' = 1 - callBit
    /\ uPc' = [uPc EXCEPT ![p] = "idle"]
    /\ uReq' = [uReq EXCEPT ![p] = NoReq]
    /\ uUsers' = [uUsers EXCEPT ![p] = <<>>]
    /\ UNCHANGED <<now, uOverlap, rtVars, storeVars, actVars, catVars>>

NextUsersConc ==
    \/ \E p \in UProcs, req \in ConcRequests : UCheck(p, req)
    \/ \E p \in UProcs : ULoad(p)
    \/ \E p \in UProcs : USave(p)
    \/ Tick

SpecUsersConc == Init /\ [][NextUsersConc]_vars

\* ------------------------------------------------------ claims on users
UsernameIn(users, username) == \E i \in 1..Len(users) : users[i].username = username

UniqueUsernames(users) ==
    \A i, j \in 1..Len(users) : i # j => users[i].username # users[j].username

\* C1: a create_user call whose username is already in the persisted users
\* collection ends with the 400 "Username already registered" error and leaves
\* the users file exactly as it was (no write happens).
C1_DuplicateRejectedBeforeWrite ==
    [][(/\ callBit' # callBit
        /\ lastCall'.op = "create_user"
        /\ UsernameIn(Persisted(usersFile), lastCall'.username))
       => (/\ lastCall'.status = 400
           /\ lastCall'.detail = "Username already registered"
           /\ usersFile' = usersFile
           /\ created' = created)]_vars

\* C1's case: a username that an earlier call created is asked for again and
\* the call has been rejected.
C1_Witness ==
    /\ lastCall.op = "create_user" /\ lastCall.status = 400
    /\ lastCall.username = "alice"
    /\ \E i \in 1..Len(created) : created[i].username = "alice"

\* C2: after create_user calls run one at a time, get_user_by_username(u)
\* returns, for every username u a call created, the record that call stored.
C2_CreatedUsersAreFound ==
    \A i \in 1..Len(created) :
        GetUserByUsername(usersFile, now, created[i].username).ret = Some(created[i])

C2_Witness ==
    /\ Len(created) >= 2
    /\ GetUserByUsername(usersFile, now, created[1].username).ret = Some(created[1])

\* C3 as stated: from a store with no users file, the persisted users
\* collection has as many records as create_user calls succeeded.
C3_CountEqualsSucceeded == Len(Persisted(usersFile)) = Len(created)

\* C3 amended: once a call has run the file exists and holds one record more
\* than the calls that succeeded, the demo_user account load_users seeded;
\* until then nothing has succeeded.
C3_CountIsSucceededPlusDemo ==
    IF usersFile.exists
    THEN /\ Len(Persisted(usersFile)) = Len(created) + 1
         /\ Persisted(usersFile)[1].username = "demo_user"
    ELSE Len(created) = 0

C3_Witness == usersFile.exists /\ Len(created) >= 2 /\ Len(Persisted(usersFile)) = 3

\* C4 as stated: no two persisted user records share a username, also when
\* create_user calls interleave.
C4_UniqueUsernamesAlways == UniqueUsernames(Persisted(usersFile))

\* C4 amended: no two persisted user records share a username as long as the
\* create_user calls have run one at a time.
C4_UniqueWhenOneAtATime == ~uOverlap => UniqueUsernames(Persisted(usersFile))

C4_Witness == ~uOverlap /\ Len(created) >= 2 /\ lastCall.status = 400

\* ----------------------------------- save_users(x) followed by load_users()
\* The longest list the round trip is tried on.
MaxLen == 2

\* Well-formed user records: what create_user and load_users build.
SampleUsers ==
    {NewUser(r, 1) : r \in {q \in Requests : q.email = "a@x.io" /\ q.username # "demo_user"}}
        \cup {DemoUser(0)}

SeqsUpTo(S, n) == UNION {[1..k -> S] : k \in 0..n}

\* What the users file may hold before the save: nothing, an earlier
\* collection, a bare list (the other schema), an object without "users",
\* or bytes that are not JSON.
OldUsersFiles ==
    {NoFile,
     [exists |-> TRUE, tag |-> "dict", key |-> "users", val |-> <<DemoUser(0)>>],
     [exists |-> TRUE, tag |-> "list", key |-> "", val |-> <<DemoUser(0)>>],
     [exists |-> TRUE, tag |-> "dict", key |-> "accounts", val |-> <<DemoUser(0)>>],
     [exists |-> TRUE, tag |-> "invalid", key |-> "", val |-> <<>>]}

InitRoundTrip ==
    /\ usersFile \in OldUsersFiles
    /\ InitUserProcs
    /\ InitFiles
    /\ rtX \in SeqsUpTo(SampleUsers, MaxLen)
    /\ rtPc = "start"
    /\ rtLoaded = <<>>

\* save_users(x)
RtSave ==
    /\ rtPc = "start"
    /\ usersFile' = SaveUsers(usersFile, rtX)
    /\ rtPc' = "saved"
    /\ UNCHANGED <<now, lastCall, callBit, created, uPc, uReq, uUsers, uOverlap,
                   rtX, rtLoaded, storeVars, actVars, catVars>>

\* load_users()
RtLoad ==
    /\ rtPc = "saved"
    /\ usersFile' = LoadUsers(usersFile, now).file
    /\ rtLoaded' = LoadUsers(usersFile, now).ret
    /\ rtPc' = "loaded"
    /\ UNCHANGED <<now, lastCall, callBit, created, uPc, uReq, uUsers, uOverlap,
                   rtX, storeVars, actVars, catVars>>

NextRoundTrip == RtSave \/ RtLoad \/ (Tick /\ rtPc # "loaded")

SpecRoundTrip == InitRoundTrip /\ [][NextRoundTrip]_vars

\* C5: save_users(x) followed by load_users() returns x, the same records in
\* the same order, whatever the file held before.
C5_SaveLoadRoundTrip == rtPc = "loaded" => rtLoaded = rtX

\* C5's case: a list of two different records has gone through the round trip.
C5_Witness ==
    /\ rtPc = "loaded" /\ Len(rtX) = 2 /\ rtX[1] # rtX[2]
    /\ Len(rtLoaded) = 2 /\ rtLoaded[1] = rtX[1]

\* ------------------------------------------------- the conversations file
\* The most records the activities file is let grow to.
MaxActs == 2

PREDEFINED_CATEGORIES == <<"Work", "Health", "Learning", "Personal", "Creative", "Social">>
Predefined == {PREDEFINED_CATEGORIES[i] : i \in 1..Len(PREDEFINED_CATEGORIES)}

\* Strings that are compared with < and >: sequences of character codes.
\* a < b as Python compares str: at the first difference, or a proper prefix.
LexLess(a, b) ==
    \E k \in 0..Min(Len(a), Len(b)) :
        /\ \A i \in 1..k : a[i] = b[i]
        /\ \/ (k = Len(a) /\ k < Len(b))
           \/ (k < Len(a) /\ k < Len(b) /\ a[k + 1] < b[k + 1])
LexLeq(a, b) == a = b \/ LexLess(a, b)

\* datetime.now().isoformat() / datetime.utcnow().isoformat(): a string whose
\* order is the clock's (here two characters, the second the clock reading).
IsoFormat(t) == <<1, t>>

\* load_conversations(): the stored list; [] when the file is absent or
\* cannot be parsed.
LoadConversations(file) ==
    IF file.exists /\ file.tag = "list" THEN file.val ELSE <<>>

\* save_conversations(conversations), writing nothing.
SaveConversationsSkipped(file, conversations) == file
\* save_conversations(conversations)
SaveConversations(file, conversations) ==
    [exists |-> TRUE, tag |-> "list", key |-> "", val |-> conversations]

\* conversations.append(rec), put at the front instead.
AppendedConvFront(conversations, rec) == <<rec>> \o conversations
\* conversations.append(rec)
AppendedConv(conversations, rec) == Append(conversations, rec)

\* The outcomes of the language-model call in process_activity_text: a JSON
\* object with a category (valid or not) or without one, a reply that is not
\* JSON, JSON that is no object, and a failed call.
LlmOutcomes == {"Work", "Health", "Misc", "<no category>", "<not json>",
                "<not an object>", "<call failed>"}

\* process_activity_text(text) without the check against the predefined
\* categories: the model's category is handed on.
ProcessActivityTextUnchecked(text, llm, t) ==
    [processed_text |-> text,
     category |-> IF llm \in {"<no category>", "<not json>", "<not an object>",
                              "<call failed>"}
                  THEN "Personal" ELSE llm,
     timestamp |-> IsoFormat(t)]

\* process_activity_text(text): the category and timestamp it returns.
ProcessActivityText(text, llm, t) ==
    [processed_text |-> text,
     category |-> IF llm \in Predefined THEN llm ELSE "Personal",
     timestamp |-> IsoFormat(t)]

\* The record log_text_activity stores.
TextActivity(user, text, llm, t) ==
    LET processed == ProcessActivityText(text, llm, t)
    IN [kind |-> "log_text", id |-> None, user_id |-> Some(user),
        timestamp |-> processed.timestamp, category |-> Some(processed.category),
        raw_text |-> text]

\* The record create_activity stores.
NewActivity(user, activity) ==
    [kind |-> "activity", id |-> None, user_id |-> Some(user),
     timestamp |-> activity.timestamp[1], category |-> Some("general"),
     raw_text |-> activity.text]

\* The record add_conversation stores: no user_id, no category.
NewConversation(data, t) ==
    [kind |-> "conversation", id |-> data.id, user_id |-> None,
     timestamp |-> IsoFormat(t), category |-> None, raw_text |-> ""]

\* The counters file: a JSON object, here the list of its members in
\* insertion order (json keeps it).  A member is a bare count (kind "int",
\* what log_text_activity writes) or a structured entry (kind "meta", what
\* update_category_metadata writes).
LoadCategories(file) ==
    IF file.exists /\ file.tag = "dict" THEN file.val ELSE <<>>

SaveCategories(file, categories) ==
    [exists |-> TRUE, tag |-> "dict", key |-> "", val |-> categories]

CatIndex(categories, name) ==
    LET hits == {i \in 1..Len(categories) : categories[i].name = name}
    IN IF hits = {} THEN 0 ELSE CHOOSE i \in hits : TRUE

IntEntry(name, n) ==
    [name |-> name, kind |-> "int", frequency |-> n, first_seen |-> None,
     context_clues |-> <<>>, user_stats |-> <<>>]

\* log_text_activity's counter update on the loaded stats:
\* if category not in stats: stats[category] = 0; stats[category] += 1.
\* `+= 1` on a structured entry raises TypeError.
BumpedStats(stats, category) ==
    LET i == CatIndex(stats, category)
    IN IF i = 0 THEN [ok |-> TRUE, val |-> Append(stats, IntEntry(category, 1))]
       ELSE IF stats[i].kind = "int"
            THEN [ok |-> TRUE,
                  val |-> [stats EXCEPT ![i] = IntEntry(category, stats[i].frequency + 1)]]
            ELSE [ok |-> FALSE, val |-> stats]

ActUsers == {"alice", "bob"}
Texts == {"ran 5k"}
\* The strings a client sends as a timestamp; None: the key is missing.
TimeStrings == {<<>>, <<1>>, <<1, 1>>, <<1, 1, 0>>, <<2>>}
ActivityBodies == [text : Texts, timestamp : {None} \cup {Some(s) : s \in TimeStrings}]
ConversationData == [id : {None, Some("conv-1")}]

Ok(op) == [op |-> op, username |-> "", status |-> 200, detail |-> ""]
Failed(op) == [op |-> op, username |-> "", status |-> 500, detail |-> ""]

\* --------------------------------- the activity handlers, one at a time
\* POST /log-text
LogTextActivity(user, text, llm) ==
    LET rec == TextActivity(user, text, llm, now)
        conversations == AppendedConv(LoadConversations(convFile), rec)
        stats == BumpedStats(LoadCategories(catFile), rec.category[1])
    IN /\ Len(LoadConversations(convFile)) < MaxActs
       /\ convFile' = SaveConversations(convFile, conversations)
       /\ IF stats.ok
          THEN /\ catFile' = SaveCategories(catFile, stats.val)
               /\ lastCall' = Ok("log_text_activity")
          ELSE /\ catFile' = catFile
               /\ lastCall' = Failed("log_text_activity")
       /\ UNCHANGED <<now, callBit, userVars, rtVars, storeVars, actProcVars, callCount, lastAt>>

\* POST /activities
CreateActivity(user, activity) ==
    /\ Len(LoadConversations(convFile)) < MaxActs
    /\ IF activity.timestamp = None
       THEN \* activity["timestamp"] raises KeyError: nothing is saved
            /\ convFile' = convFile
            /\ lastCall' = Failed("create_activity")
       ELSE /\ convFile' = SaveConversations(convFile,
                   AppendedConv(LoadConversations(convFile), NewActivity(user, activity)))
            /\ lastCall' = Ok("create_activity")
    /\ UNCHANGED <<now, callBit, userVars, rtVars, storeVars, catVars, actProcVars>>

\* storage.add_conversation(conversation_data)
AddConversation(data) ==
    /\ Len(LoadConversations(convFile)) < MaxActs
    /\ IF data.id = None
       THEN \* conversation_data["id"] raises KeyError after the load
            /\ convFile' = convFile
            /\ lastCall' = Failed("add_conversation")
       ELSE /\ convFile' = SaveConversations(convFile,
                   AppendedConv(LoadConversations(convFile), NewConversation(data, now)))
            /\ lastCall' = Ok("add_conversation")
    /\ UNCHANGED <<now, callBit, userVars, rtVars, storeVars, catVars, actProcVars>>

NextAct ==
    \/ \E user \in ActUsers, text \in Texts, llm \in LlmOutcomes :
           LogTextActivity(user, text, llm)
    \/ \E user \in ActUsers, activity \in ActivityBodies : CreateActivity(user, activity)
    \/ \E data \in ConversationData : AddConversation(data)
    \/ Tick

SpecAct == Init /\ [][NextAct]_vars

\* get_conversations(user_id, start_date, end_date) on the stored list.
\* `if start_date and ...`: None and "" both switch the bound off.
Truthy(optString) == optString # None /\ optString[1] # <<>>

KeptEndExclusive(conv, user_id, start_date, end_date) ==
    /\ conv.user_id = Some(user_id)
    /\ ~(Truthy(start_date) /\ LexLess(conv.timestamp, start_date[1]))
    /\ ~(Truthy(end_date) /\ LexLeq(end_date[1], conv.timestamp))
Kept(conv, user_id, start_date, end_date) ==
    /\ conv.user_id = Some(user_id)
    /\ ~(Truthy(start_date) /\ LexLess(conv.timestamp, start_date[1]))
    /\ ~(Truthy(end_date) /\ LexLess(end_date[1], conv.timestamp))

RECURSIVE Filter(_, _, _, _)
Filter(conversations, user_id, start_date, end_date) ==
    IF conversations = <<>> THEN <<>>
    ELSE LET rest == Filter(Tail(conversations), user_id, start_date, end_date)
         IN IF Kept(Head(conversations), user_id, start_date, end_date)
            THEN <<Head(conversations)>> \o rest
            ELSE rest

GetConversations(file, user_id, start_date, end_date) ==
    Filter(LoadConversations(file), user_id, start_date, end_date)

\* ------------------------------------------------- claims on activities
IsPrefix(s, t) == Len(s) <= Len(t) /\ \A i \in 1..Len(s) : s[i] = t[i]

\* C6: with the handlers run one at a time, every step leaves the records
\* that were in the activities file where they were, unchanged: the old
\* collection is a prefix of the new one.
C6_ActivitiesOnlyGrow ==
    [][IsPrefix(LoadConversations(convFile), LoadConversations(convFile'))]_vars

\* C6's case: a second operation has appended behind the record of a first.
C6_Witness ==
    /\ Len(LoadConversations(convFile)) = 2
    /\ LoadConversations(convFile)[1].kind = "log_text"
    /\ LoadConversations(convFile)[2].kind \in {"activity", "conversation"}
    /\ lastCall.status = 200

\* The records of owner within the bounds, in stored order.  A bound that is
\* None or "" does not restrict; the end bound is met by timestamp <= end
\* (hiInclusive) or by timestamp < end.
RECURSIVE SelectByBounds(_, _, _, _, _)
SelectByBounds(conversations, user_id, lo, hi, hiInclusive) ==
    IF conversations = <<>> THEN <<>>
    ELSE LET c == Head(conversations)
             rest == SelectByBounds(Tail(conversations), user_id, lo, hi, hiInclusive)
             in == /\ c.user_id = Some(user_id)
                   /\ Truthy(lo) => LexLeq(lo[1], c.timestamp)
                   /\ Truthy(hi) => IF hiInclusive THEN LexLeq(c.timestamp, hi[1])
                                                   ELSE LexLess(c.timestamp, hi[1])
         IN IF in THEN <<c>> \o rest ELSE rest

OptTimeStrings == {None} \cup {Some(s) : s \in TimeStrings}

SavedConvsMerged(file, loaded, rec) == AppendedConv(LoadConversations(file), rec)
SavedConvs(file, loaded, rec) == AppendedConv(loaded, rec)

\* The activities file at start-up: none, or one earlier record.
BaseConvFiles ==
    {NoFile,
     SaveConversations(NoFile, <<NewActivity("bob", [text |-> "ran 5k", timestamp |-> Some(<<1>>)])>>)}

InitActConc ==
    /\ usersFile = NoFile
    /\ InitUserProcs
    /\ InitRtOff
    /\ convFile \in BaseConvFiles
    /\ convBase = LoadConversations(convFile)
    /\ catFile = NoFile
    /\ InitActProcs
    /\ InitCatHistory
    /\ InitStore

\* log_text_activity: process_activity_text(activity.text) and the record.
AProcess(p, user, text, llm) ==
    /\ aPc[p] = "idle"
    /\ aPc' = [aPc EXCEPT ![p] = "processed"]
    /\ aOp' = [aOp EXCEPT ![p] = "log_text_activity"]
    /\ aRec' = [aRec EXCEPT ![p] = TextActivity(user, text, llm, now)]
    /\ UNCHANGED <<now, lastCall, callBit, userVars, rtVars, storeVars, catVars, convFile,
                   aConvs, aStats, aStatus, aRaced, convBase>>

Loaded(p) ==
    /\ aConvs' = [aConvs EXCEPT ![p] = LoadConversations(convFile)]
    /\ aRaced' = (aRaced \/ \E q \in AProcs \ {p} : aPc[q] = "loaded")
    /\ aPc' = [aPc EXCEPT ![p] = "loaded"]

\* log_text_activity: conversations = load_conversations()
ALoadText(p) ==
    /\ aPc[p] = "processed"
    /\ Loaded(p)
    /\ UNCHANGED <<now, lastCall, callBit, userVars, rtVars, storeVars, catVars, convFile,
                   aOp, aRec, aStats, aStatus, convBase>>

\* create_activity: conversations = load_conversations(), then new_activity.
ALoadActivity(p, user, activity) ==
    /\ aPc[p] = "idle"
    /\ aOp' = [aOp EXCEPT ![p] = "create_activity"]
    /\ IF activity.timestamp = None
       THEN /\ aPc' = [aPc EXCEPT ![p] = "done"]
            /\ aStatus' = [aStatus EXCEPT ![p] = 500]
            /\ UNCHANGED <<aRec, aConvs, aRaced>>
       ELSE /\ Loaded(p)
            /\ aRec' = [aRec EXCEPT ![p] = NewActivity(user, activity)]
            /\ UNCHANGED aStatus
    /\ UNCHANGED <<now, lastCall, callBit, userVars, rtVars, storeVars, catVars, convFile,
                   aStats, convBase>>

\* add_conversation: conversations = load_conversations(), then the record.
ALoadConversation(p, data) ==
    /\ aPc[p] = "idle"
    /\ aOp' = [aOp EXCEPT ![p] = "add_conversation"]
    /\ IF data.id = None
       THEN /\ aPc' = [aPc EXCEPT ![p] = "done"]
            /\ aStatus' = [aStatus EXCEPT ![p] = 500]
            /\ UNCHANGED <<aRec, aConvs, aRaced>>
       ELSE /\ Loaded(p)
            /\ aRec' = [aRec EXCEPT ![p] = NewConversation(data, now)]
            /\ UNCHANGED aStatus
    /\ UNCHANGED <<now, lastCall, callBit, userVars, rtVars, storeVars, catVars, convFile,
                   aStats, convBase>>

\* conversations.append(rec); save_conversations(conversations).
\* create_activity and add_conversation return here.
ASave(p) ==
    /\ aPc[p] = "loaded"
    /\ convFile' = SaveConversations(convFile, SavedConvs(convFile, aConvs[p], aRec[p]))
    /\ IF aOp[p] = "log_text_activity"
       THEN /\ aPc' = [aPc EXCEPT ![p] = "saved"]
            /\ UNCHANGED aStatus
       ELSE /\ aPc' = [aPc EXCEPT ![p] = "done"]
            /\ aStatus' = [aStatus EXCEPT ![p] = 200]
    /\ UNCHANGED <<now, lastCall, callBit, userVars, rtVars, storeVars, catVars,
                   aOp, aRec, aConvs, aStats, aRaced, convBase>>

\* log_text_activity: stats = load_categories()
ACatLoad(p) ==
    /\ aPc[p] = "saved"
    /\ aStats' = [aStats EXCEPT ![p] = LoadCategories(catFile)]
    /\ aPc' = [aPc EXCEPT ![p] = "counted"]
    /\ UNCHANGED <<now, lastCall, callBit, userVars, rtVars, storeVars, catVars, convFile,
                   aOp, aRec, aConvs, aStatus, aRaced, convBase>>

\* log_text_activity: stats[category] += 1; save_categories(stats); return.
ACatSave(p) ==
    LET stats == BumpedStats(aStats[p], aRec[p].category[1])
    IN /\ aPc[p] = "counted"
       /\ aPc' = [aPc EXCEPT ![p] = "done"]
       /\ IF stats.ok
          THEN /\ catFile' = SaveCategories(catFile, stats.val)
               /\ aStatus' = [aStatus EXCEPT ![p] = 200]
          ELSE /\ catFile' = catFile
               /\ aStatus' = [aStatus EXCEPT ![p] = 500]
       /\ UNCHANGED <<now, lastCall, callBit, userVars, rtVars, storeVars, convFile,
                      aOp, aRec, aConvs, aStats, aRaced, convBase, callCount, lastAt>>

NextActConc ==
    \/ \E p \in AProcs, user \in ActUsers, text \in Texts, llm \in LlmOutcomes :
           AProcess(p, user, text, llm)
    \/ \E p \in AProcs : ALoadText(p)
    \/ \E p \in AProcs, user \in ActUsers, activity \in ActivityBodies :
           ALoadActivity(p, user, activity)
    \/ \E p \in AProcs, data \in ConversationData : ALoadConversation(p, data)
    \/ \E p \in AProcs : ASave(p)
    \/ \E p \in AProcs : ACatLoad(p)
    \/ \E p \in AProcs : ACatSave(p)
    \/ Tick

SpecActConc == InitActConc /\ [][NextActConc]_vars

HasSaved(p) == aPc[p] \in {"saved", "counted", "done"} /\ aRec[p] # NoRec

\* C7: when two appends both load the activities collection before either
\* saves, then once both have saved the file holds the collection they loaded
\* plus exactly one of the two new records (the last writer's), and both
\* handlers report success all the same.
C7_LastWriterWins ==
    (aRaced /\ \A p \in AProcs : HasSaved(p))
    => /\ Len(LoadConversations(convFile)) = Len(convBase) + 1
       /\ \E p \in AProcs : LoadConversations(convFile) = Append(convBase, aRec[p])
       /\ \A p \in AProcs : aPc[p] = "done" => aStatus[p] = 200

\* C7's case: both handlers have returned success and the record of one of
\* them is not in the file.
C7_Witness ==
    /\ aRaced
    /\ \A p \in AProcs : aPc[p] = "done" /\ aStatus[p] = 200
    /\ aRec[1] # aRec[2]
    /\ \E p \in AProcs :
           \A i \in 1..Len(LoadConversations(convFile)) :
               LoadConversations(convFile)[i] # aRec[p]

\* ------------------------------------------------ update_category_metadata
\* The most update_category_metadata calls a behaviour makes.
MaxCalls == 3
\* The largest limit get_suggested_categories is asked with.
MaxLimit == 3

Contexts == {None, Some("gym")}

\* categories[category] = {...}: the entry of a category first seen at t.
NewEntry(category, t) ==
    [name |-> category, kind |-> "meta", frequency |-> 0, first_seen |-> Some(t),
     context_clues |-> <<>>, user_stats |-> <<>>]

UserIndex(user_stats, user_id) ==
    LET hits == {j \in 1..Len(user_stats) : user_stats[j].user_id = user_id}
    IN IF hits = {} THEN 0 ELSE CHOOSE j \in hits : TRUE

\* The per-user sub-record touched, last_used written on the first touch only.
TouchedUserStatsStale(user_stats, user_id, t2, t3) ==
    IF UserIndex(user_stats, user_id) = 0
    THEN Append(user_stats, [user_id |-> user_id, frequency |-> 1,
                             first_seen |-> Some(t2), last_used |-> Some(t3)])
    ELSE [user_stats EXCEPT ![UserIndex(user_stats, user_id)].frequency = @ + 1]
\* The per-user sub-record created if absent, its frequency left as it is.
TouchedUserStatsUncounted(user_stats, user_id, t2, t3) ==
    IF UserIndex(user_stats, user_id) = 0
    THEN Append(user_stats, [user_id |-> user_id, frequency |-> 0,
                             first_seen |-> Some(t2), last_used |-> Some(t3)])
    ELSE [user_stats EXCEPT ![UserIndex(user_stats, user_id)].last_used = Some(t3)]
\* The per-user sub-record created if absent (at t2), its frequency
\* incremented and last_used set (at t3).
TouchedUserStats(user_stats, user_id, t2, t3) ==
    LET us == IF UserIndex(user_stats, user_id) = 0
              THEN Append(user_stats, [user_id |-> user_id, frequency |-> 0,
                                       first_seen |-> Some(t2), last_used |-> None])
              ELSE user_stats
        j == UserIndex(us, user_id)
    IN [us EXCEPT ![j].frequency = @ + 1, ![j].last_used = Some(t3)]

\* `if context: if context not in clues: clues.append(context)`
AddedClue(clues, context) ==
    IF context # None /\ context[1] # "" /\ \A k \in 1..Len(clues) : clues[k] # context[1]
    THEN Append(clues, context[1])
    ELSE clues

\* update_category_metadata on the loaded counters; t1, t2, t3 are its three
\* readings of the clock.  `cat_data["frequency"]` on a bare count raises.
UpdatedCategories(categories, category, user_id, context, t1, t2, t3) ==
    LET cats == IF CatIndex(categories, category) = 0
                THEN Append(categories, NewEntry(category, t1))
                ELSE categories
        i == CatIndex(cats, category)
    IN IF cats[i].kind # "meta"
       THEN [ok |-> FALSE, val |-> categories]
       ELSE [ok |-> TRUE,
             val |-> [cats EXCEPT
                        ![i].frequency = @ + 1,
                        ![i].user_stats = TouchedUserStats(@, user_id, t2, t3),
                        ![i].context_clues = AddedClue(@, context)]]

UpdateCategoryMetadata(category, user_id, context, t1, t2, t3) ==
    LET upd == UpdatedCategories(LoadCategories(catFile), category, user_id,
                                 context, t1, t2, t3)
        calls == callCount[<<"Work", "alice">>] + callCount[<<"Work", "bob">>]
                 + callCount[<<"Health", "alice">>] + callCount[<<"Health", "bob">>]
                 + callCount[<<"Social", "alice">>] + callCount[<<"Social", "bob">>]
    IN /\ calls < MaxCalls
       /\ now <= t1 /\ t1 <= t2 /\ t2 <= t3 /\ t3 <= MaxClock
       /\ now' = t3
       /\ callCount' = [callCount EXCEPT ![<<category, user_id>>] = @ + 1]
       /\ lastAt' = [lastAt EXCEPT ![<<category, user_id>>] = t3]
       /\ IF upd.ok
          THEN /\ catFile' = SaveCategories(catFile, upd.val)
               /\ lastCall' = Ok("update_category_metadata")
          ELSE /\ catFile' = catFile
               /\ lastCall' = Failed("update_category_metadata")
       /\ UNCHANGED <<callBit, userVars, rtVars, storeVars, actVars>>

NextCat ==
    \/ \E category \in CatNames, user_id \in CatOwners, context \in Contexts,
          t1 \in 0..MaxClock, t2 \in 0..MaxClock, t3 \in 0..MaxClock :
           UpdateCategoryMetadata(category, user_id, context, t1, t2, t3)
    \/ Tick

SpecCat == Init /\ [][NextCat]_vars

\* ------------------------------------------------ get_suggested_categories
\* The sort key (frequency, last_used) compared as Python compares tuples.
KeyLessFrequencyOnly(a, b) == a.frequency < b.frequency
KeyLess(a, b) ==
    \/ a.frequency < b.frequency
    \/ (a.frequency = b.frequency /\ a.last_used[1] < b.last_used[1])

\* x put into a list sorted in descending order, behind the items that are
\* not smaller (the sort is stable).
InsertDesc(sorted, x) ==
    LET smaller == {i \in 1..Len(sorted) : KeyLess(sorted[i], x)}
        at == IF smaller = {} THEN Len(sorted) + 1
              ELSE CHOOSE i \in smaller : \A j \in smaller : i <= j
    IN SubSeq(sorted, 1, at - 1) \o <<x>> \o SubSeq(sorted, at, Len(sorted))

\* sorted(items, key=..., reverse=True)
RECURSIVE SortedDesc(_)
SortedDesc(items) ==
    IF items = <<>> THEN <<>>
    ELSE InsertDesc(SortedDesc(SubSeq(items, 1, Len(items) - 1)), items[Len(items)])

\* The {name, frequency, last_used} items of the categories user_id has a
\* sub-record in, in the order of the counters file.
RECURSIVE UserCategories(_, _)
UserCategories(categories, user_id) ==
    IF categories = <<>> THEN <<>>
    ELSE LET c == Head(categories)
             j == UserIndex(c.user_stats, user_id)
             rest == UserCategories(Tail(categories), user_id)
         IN IF j = 0 THEN rest
            ELSE <<[name |-> c.name, frequency |-> c.user_stats[j].frequency,
                    last_used |-> c.user_stats[j].last_used]>> \o rest

\* get_suggested_categories(user_id, limit), limit >= 0: sorted_categories[:limit]
GetSuggestedCategories(file, user_id, limit) ==
    LET sorted == SortedDesc(UserCategories(LoadCategories(file), user_id))
    IN SubSeq(sorted, 1, Min(limit, Len(sorted)))

\* ------------------------------------------------- claims on categories
CallsFor(category) == callCount[<<category, "alice">>] + callCount[<<category, "bob">>]

\* C8: from an empty counters collection, after update_category_metadata
\* calls run one at a time, each entry's global frequency is the number of
\* calls with its category, each per-user sub-record's frequency the number
\* of calls with that (category, owner) and its last_used the timestamp of
\* the latest such call; categories and owners never used have no entry.
C8_CountersMatchCalls ==
    \A c \in CatNames :
        LET cats == LoadCategories(catFile)
            i == CatIndex(cats, c)
        IN IF CallsFor(c) = 0 THEN i = 0
           ELSE /\ i # 0
                /\ cats[i].frequency = CallsFor(c)
                /\ \A o \in CatOwners :
                       LET j == UserIndex(cats[i].user_stats, o)
                       IN IF callCount[<<c, o>>] = 0 THEN j = 0
                          ELSE /\ j # 0
                               /\ cats[i].user_stats[j].frequency = callCount[<<c, o>>]
                               /\ cats[i].user_stats[j].last_used = Some(lastAt[<<c, o>>])

\* C8's case: Work was used twice by alice and then once by bob; alice's
\* last_used is later than her first_seen.
C8_Witness ==
    /\ callCount[<<"Work", "alice">>] = 2 /\ callCount[<<"Work", "bob">>] = 1
    /\ LoadCategories(catFile)[1].name = "Work"
    /\ LoadCategories(catFile)[1].frequency = 3
    /\ LoadCategories(catFile)[1].user_stats[1].user_id = "alice"
    /\ LoadCategories(catFile)[1].user_stats[1].first_seen = Some(0)
    /\ LoadCategories(catFile)[1].user_stats[1].last_used = Some(1)

\* Item a may stand before item b: higher frequency, or the same frequency
\* and a last_used that is not earlier.
MayPrecede(a, b) ==
    \/ a.frequency > b.frequency
    \/ (a.frequency = b.frequency /\ a.last_used[1] >= b.last_used[1])

\* C9: get_suggested_categories(owner, limit) returns min(limit, n) items,
\* each one of the n categories owner has used, with the owner's frequency
\* and last_used, no category twice, ordered by frequency descending and
\* then last_used descending, and no category left out ranks above one
\* returned.
C9_SuggestedRanking ==
    \A o \in CatOwners, limit \in 0..MaxLimit :
        LET r == GetSuggestedCategories(catFile, o, limit)
            mine == {c \in CatNames : callCount[<<c, o>>] > 0}
            item(c) == [name |-> c, frequency |-> callCount[<<c, o>>],
                        last_used |-> Some(lastAt[<<c, o>>])]
            names == {r[i].name : i \in 1..Len(r)}
        IN /\ Len(r) = Min(limit, Cardinality(mine))
           /\ \A i \in 1..Len(r) : r[i].name \in mine /\ r[i] = item(r[i].name)
           /\ \A i, j \in 1..Len(r) :
                  i < j => (r[i].name # r[j].name /\ MayPrecede(r[i], r[j]))
           /\ \A c \in mine \ names : \A i \in 1..Len(r) : MayPrecede(r[i], item(c))

\* C9's case: alice used Work and then, later, Health, once each; with
\* limit 1 she is suggested Health, the second entry of the counters file.
C9_Witness ==
    /\ callCount[<<"Work", "alice">>] = 1 /\ callCount[<<"Health", "alice">>] = 1
    /\ lastAt[<<"Work", "alice">>] < lastAt[<<"Health", "alice">>]
    /\ LoadCategories(catFile)[1].name = "Work"
    /\ Len(GetSuggestedCategories(catFile, "alice", 1)) = 1
    /\ GetSuggestedCategories(catFile, "alice", 1)[1].name = "Health"
    /\ Len(GetSuggestedCategories(catFile, "alice", 3)) = 2

\* --------------------------------------------------- GET /visualizations
\* The estimate of minutes one activity takes.
MinutesPerActivity == 30

\* The clock of the activity handlers advances this many hours per reading, so
\* that successive readings fall on different weekdays and hours; reading 0
\* is a Monday, 00:00.
ClockStepHours == 25

days == <<"Monday", "Tuesday", "Wednesday", "Thursday", "Friday", "Saturday", "Sunday">>

\* f"{hour:02d}:00": the two digits of the hour.
HourLabel(hour) == <<hour \div 10, hour % 10>>
hours == [i \in 1..24 |-> HourLabel(i - 1)]

colors == <<"#FF6B6B", "#4ECDC4", "#45B7D1", "#96CEB4", "#FFEEAD", "#D4A5A5">>

Range(s) == {s[i] : i \in 1..Len(s)}

\* datetime.fromisoformat(s): the instant an isoformat() string names;
\* ValueError (ok = FALSE) for any other string.
FromIsoFormat(s) ==
    IF Len(s) = 2 /\ s[1] = 1
    THEN [ok |-> TRUE, weekday |-> ((s[2] * ClockStepHours) \div 24) % 7,
          hour |-> (s[2] * ClockStepHours) % 24]
    ELSE [ok |-> FALSE, weekday |-> 0, hour |-> 0]

\* {cat: 0 for cat in categories}, with only the first category as a key.
ZeroCountsPartial(categories) == [cat \in {categories[1]} |-> 0]
\* {cat: 0 for cat in categories}
ZeroCounts(categories) == [cat \in Range(categories) |-> 0]

\* d[k] = v on a dict: the key is added when it is not there.
Put(d, k, v) == [x \in DOMAIN d \cup {k} |-> IF x = k THEN v ELSE d[x]]
\* d.get(k, 0)
Get(d, k) == IF k \in DOMAIN d THEN d[k] ELSE 0

\* `if not conv.get("timestamp"): continue`, never taken.
NoTimestampNever(conv) == FALSE
\* `if not conv.get("timestamp"): continue`: a missing or empty timestamp.
NoTimestamp(conv) == conv.timestamp = <<>>

\* `if category not in PREDEFINED_CATEGORIES: continue`
NotPredefined(category) == category = None \/ category[1] \notin Predefined

\* time_spent.get(category, 0) + 1
AddedTimeOne(minutes) == minutes + 1
\* time_spent.get(category, 0) + 30
AddedTime(minutes) == minutes + MinutesPerActivity

\* One turn of the loop over user_conversations.  ok = FALSE: an exception
\* has left the loop (fromisoformat's ValueError, a KeyError of a bucket).
Accumulated(acc, conv) ==
    IF ~acc.ok \/ NoTimestamp(conv) THEN acc
    ELSE LET ts == FromIsoFormat(conv.timestamp)
             day == days[ts.weekday + 1]
             hour == HourLabel(ts.hour)
         IN IF ~ts.ok THEN [acc EXCEPT !.ok = FALSE]
            ELSE IF NotPredefined(conv.category) THEN acc
            ELSE IF conv.category = None \/ conv.category[1] \notin DOMAIN acc.daily[day]
                 THEN [acc EXCEPT !.ok = FALSE]
            ELSE LET category == conv.category[1]
                 IN [ok |-> TRUE,
                     distribution |-> Put(acc.distribution, category,
                                          Get(acc.distribution, category) + 1),
                     time_spent |-> Put(acc.time_spent, category,
                                        AddedTime(Get(acc.time_spent, category))),
                     daily |-> [acc.daily EXCEPT ![day][category] = @ + 1],
                     hourly |-> [acc.hourly EXCEPT ![hour][category] = @ + 1]]

RECURSIVE Aggregated(_, _)
Aggregated(acc, convs) ==
    IF convs = <<>> THEN acc
    ELSE Aggregated(Accumulated(acc, Head(convs)), Tail(convs))

\* [conv for conv in conversations if conv.get("user_id") == username]
RECURSIVE OwnedBy(_, _)
OwnedBy(conversations, username) ==
    IF conversations = <<>> THEN <<>>
    ELSE IF Head(conversations).user_id = Some(username)
         THEN <<Head(conversations)>> \o OwnedBy(Tail(conversations), username)
         ELSE OwnedBy(Tail(conversations), username)

\* sum(d.values())
RECURSIVE SumOver(_, _)
SumOver(d, keys) ==
    IF keys = {} THEN 0
    ELSE LET k == CHOOSE x \in keys : TRUE IN d[k] + SumOver(d, keys \ {k})
SumValues(d) == SumOver(d, DOMAIN d)

\* max(items, key=...)[0] choosing the last of the largest.
LastMax(keys, score) ==
    keys[CHOOSE i \in 1..Len(keys) :
             /\ \A j \in 1..Len(keys) : score[keys[j]] <= score[keys[i]]
             /\ \A j \in (i + 1)..Len(keys) : score[keys[j]] < score[keys[i]]]
\* max(items, key=...)[0]: of the largest, the first in the dict's order.
FirstMax(keys, score) ==
    keys[CHOOSE i \in 1..Len(keys) :
             /\ \A j \in 1..Len(keys) : score[keys[j]] <= score[keys[i]]
             /\ \A j \in 1..(i - 1) : score[keys[j]] < score[keys[i]]]


\* The response of get_visualizations for current_user at clock reading t;
\* status 500 when an exception reached the handler's except clause.
GetVisualizations(file, username, t) ==
    LET user_conversations == OwnedBy(LoadConversations(file), username)
        daily_buckets == [day \in Range(days) |-> ZeroCounts(PREDEFINED_CATEGORIES)]
        hourly_buckets == [hour \in Range(hours) |-> ZeroCounts(PREDEFINED_CATEGORIES)]
        acc == Aggregated([ok |-> TRUE,
                           distribution |-> ZeroCounts(PREDEFINED_CATEGORIES),
                           time_spent |-> ZeroCounts(PREDEFINED_CATEGORIES),
                           daily |-> daily_buckets, hourly |-> hourly_buckets],
                          user_conversations)
        color_mapping == [cat \in Predefined |->
                             colors[CHOOSE i \in 1..Len(PREDEFINED_CATEGORIES) :
                                        PREDEFINED_CATEGORIES[i] = cat]]
    IN IF ~acc.ok
          \/ \E cat \in Predefined : cat \notin DOMAIN acc.distribution
                                         \/ cat \notin DOMAIN acc.time_spent
       THEN [status |-> 500]
       ELSE [status |-> 200,
             last_updated |-> IsoFormat(t),
             total_activities |-> Len(user_conversations),
             distribution |-> acc.distribution,
             time_spent |-> acc.time_spent,
             daily_patterns |-> acc.daily,
             hourly_patterns |-> acc.hourly,
             color_mapping |-> color_mapping,
             most_active_day |->
                 FirstMax(days, [day \in Range(days) |-> SumValues(acc.daily[day])]),
             most_active_hour |->
                 FirstMax(hours, [hour \in Range(hours) |-> SumValues(acc.hourly[hour])]),
             most_common_category |-> FirstMax(PREDEFINED_CATEGORIES, acc.distribution),
             category_breakdown |->
                 [cat \in Predefined |->
                     [count |-> acc.distribution[cat],
                      time_spent |-> acc.time_spent[cat],
                      color |-> color_mapping[cat]]]]

\* ------------------------------------------- claims on get_visualizations
\* The stored records of owner, by position in the file.
OwnedIdx(user) ==
    {i \in 1..Len(LoadConversations(convFile)) :
        LoadConversations(convFile)[i].user_id = Some(user)}

\* The records of owner the aggregation counts: stamped, of a fixed category.
CountedIdx(user) ==
    {i \in OwnedIdx(user) :
        /\ LoadConversations(convFile)[i].timestamp # <<>>
        /\ LoadConversations(convFile)[i].category # None
        /\ LoadConversations(convFile)[i].category[1] \in Predefined}

\* Every stamped record of owner carries a timestamp fromisoformat accepts.
StampsParse(user) ==
    \A i \in OwnedIdx(user) :
        LoadConversations(convFile)[i].timestamp # <<>>
            => FromIsoFormat(LoadConversations(convFile)[i].timestamp).ok

Viz(user) == GetVisualizations(convFile, user, now)

AllHours == {HourLabel(h) : h \in 0..23}
AllDays == {"Monday", "Tuesday", "Wednesday", "Thursday", "Friday", "Saturday", "Sunday"}


\* C11: for an owner with no stored activity get_visualizations succeeds and
\* distribution, time_spent, daily_patterns and hourly_patterns hold 0 for
\* every predefined category, every one of the 7 weekdays and every one of
\* the 24 hours; and whatever is stored, the key sets of the four maps of a
\* result are these same complete sets.
C11_CompleteZeroInitialisedMaps ==
    \A user \in ActUsers :
        LET r == Viz(user)
        IN /\ OwnedIdx(user) = {} =>
                /\ r.status = 200
                /\ \A cat \in Predefined :
                       /\ r.distribution[cat] = 0 /\ r.time_spent[cat] = 0
                       /\ \A day \in AllDays : r.daily_patterns[day][cat] = 0
                       /\ \A hour \in AllHours : r.hourly_patterns[hour][cat] = 0
           /\ r.status = 200 =>
                /\ DOMAIN r.distribution = Predefined
                /\ DOMAIN r.time_spent = Predefined
                /\ DOMAIN r.daily_patterns = AllDays
                /\ DOMAIN r.hourly_patterns = AllHours
                /\ \A day \in AllDays : DOMAIN r.daily_patterns[day] = Predefined
                /\ \A hour \in AllHours : DOMAIN r.hourly_patterns[hour] = Predefined

\* C11's case: bob has no activity while alice has a counted one; bob's result
\* is all zero and alice's has the same keys.
C11_Witness ==
    /\ OwnedIdx("bob") = {} /\ CountedIdx("alice") # {}
    /\ Viz("bob").status = 200 /\ SumValues(Viz("bob").distribution) = 0
    /\ Viz("alice").status = 200 /\ SumValues(Viz("alice").distribution) > 0
    /\ DOMAIN Viz("alice").hourly_patterns = DOMAIN Viz("bob").hourly_patterns


\* How many counted records of owner carry category cat.
CountOf(user, cat) ==
    Cardinality({i \in CountedIdx(user) :
                    LoadConversations(convFile)[i].category = Some(cat)})

\* C12: when an owner has an activity whose category is not a predefined one,
\* get_visualizations still answers with success, and that activity adds
\* nothing: every distribution count is the number of the owner's stamped
\* records of that category, time_spent follows it, and the patterns sum to
\* the same total.
C12_OutsideCategoryIgnored ==
    \A user \in ActUsers :
        LET r == Viz(user)
        IN (\E i \in OwnedIdx(user) :
                NotPredefined(LoadConversations(convFile)[i].category))
            => /\ r.status = 200
               /\ \A cat \in Predefined :
                      /\ r.distribution[cat] = CountOf(user, cat)
                      /\ r.time_spent[cat] = MinutesPerActivity * CountOf(user, cat)
                      /\ SumOver([day \in AllDays |-> r.daily_patterns[day][cat]],
                                 AllDays) = CountOf(user, cat)
                      /\ SumOver([hour \in AllHours |-> r.hourly_patterns[hour][cat]],
                                 AllHours) = CountOf(user, cat)

\* C13: every record of the persisted activities collection has a category
\* that is one of the predefined categories, or has none, whichever handler
\* stored it.
C13_StoredCategoriesPredefined ==
    \A i \in 1..Len(LoadConversations(convFile)) :
        \/ LoadConversations(convFile)[i].category = None
        \/ LoadConversations(convFile)[i].category[1] \in Predefined


\* C14: a record of the owner without a timestamp does not make the
\* aggregation fail (it answers success whenever the owner's other stamps
\* parse) and is left out of distribution, time_spent and both pattern maps,
\* while total_activities is the number of all records of the owner, skipped
\* ones included; so total_activities >= the sum of the distribution counts.
C14_UnstampedSkippedButCounted ==
    \A user \in ActUsers :
        LET r == Viz(user)
            counted == Cardinality(CountedIdx(user))
        IN /\ StampsParse(user) => r.status = 200
           /\ r.status = 200 =>
                /\ r.total_activities = Cardinality(OwnedIdx(user))
                /\ r.total_activities >= SumValues(r.distribution)
                /\ SumValues(r.distribution) = counted
                /\ SumValues(r.time_spent) = MinutesPerActivity * counted
                /\ SumOver([day \in AllDays |-> SumValues(r.daily_patterns[day])],
                           AllDays) = counted
                /\ SumOver([hour \in AllHours |-> SumValues(r.hourly_patterns[hour])],
                           AllHours) = counted

\* C14's case: alice has a record without a timestamp and a counted one; the
\* total is 2 and the distribution sums to 1.
C14_Witness ==
    /\ \E i \in OwnedIdx("alice") : LoadConversations(convFile)[i].timestamp = <<>>
    /\ Viz("alice").status = 200
    /\ Viz("alice").total_activities = 2
    /\ SumValues(Viz("alice").distribution) = 1


\* The counted records of owner that fall on weekday day / in hour hour.
OnDay(user, day) ==
    {i \in CountedIdx(user) :
        days[FromIsoFormat(LoadConversations(convFile)[i].timestamp).weekday + 1] = day}
InHour(user, hour) ==
    {i \in CountedIdx(user) :
        HourLabel(FromIsoFormat(LoadConversations(convFile)[i].timestamp).hour) = hour}

\* keys[k] is the first key, in the order of keys, whose score is the largest.
IsFirstLargest(keys, k, score(_)) ==
    /\ \A j \in 1..Len(keys) : score(keys[j]) <= score(keys[k])
    /\ \A j \in 1..(k - 1) : score(keys[j]) < score(keys[k])

\* C15: in every result, most_active_day is the first weekday in Monday..Sunday
\* order with the largest number of counted records, most_active_hour the
\* first hour in 00:00..23:00 order with the largest number, and
\* most_common_category the first category in enumeration order with the
\* largest distribution count; with no activities they are Monday, 00:00 and
\* Work.
C15_TrendsFirstMaximum ==
    \A user \in ActUsers :
        LET r == Viz(user)
            onDay(day) == Cardinality(OnDay(user, day))
            inHour(hour) == Cardinality(InHour(user, hour))
            ofCat(cat) == CountOf(user, cat)
        IN r.status = 200 =>
             /\ \E k \in 1..7 : r.most_active_day = days[k] /\ IsFirstLargest(days, k, onDay)
             /\ \E k \in 1..24 : /\ r.most_active_hour = HourLabel(k - 1)
                                 /\ IsFirstLargest(hours, k, inHour)
             /\ \E k \in 1..Len(PREDEFINED_CATEGORIES) :
                    /\ r.most_common_category = PREDEFINED_CATEGORIES[k]
                    /\ IsFirstLargest(PREDEFINED_CATEGORIES, k, ofCat)
             /\ OwnedIdx(user) = {} =>
                    /\ r.most_active_day = "Monday"
                    /\ r.most_active_hour = HourLabel(0)
                    /\ r.most_common_category = "Work"

\* C15's case: alice's first record is Health, her second Work, one on
\* Monday and one on Tuesday: categories, days and hours tie, and the trends
\* name the earlier key of each axis.
C15_Witness ==
    /\ Viz("alice").status = 200
    /\ Viz("alice").distribution["Work"] = 1 /\ Viz("alice").distribution["Health"] = 1
    /\ LoadConversations(convFile)[1].category = Some("Health")
    /\ SumValues(Viz("alice").daily_patterns["Monday"]) = 1
    /\ SumValues(Viz("alice").daily_patterns["Tuesday"]) = 1
    /\ Viz("alice").most_common_category = "Work"
    /\ Viz("alice").most_active_day = "Monday"
    /\ Viz("alice").most_active_hour = HourLabel(0)


\* C16: in every result, for every predefined category c, time_spent[c] is
\* 30 times distribution[c], and category_breakdown[c] carries the same count
\* and time_spent.
C16_TimeSpentIsThirtyPerActivity ==
    \A user \in ActUsers :
        LET r == Viz(user)
        IN r.status = 200 =>
             \A c \in Predefined :
                 /\ r.time_spent[c] = 30 * r.distribution[c]
                 /\ r.category_breakdown[c].count = r.distribution[c]
                 /\ r.category_breakdown[c].time_spent = r.time_spent[c]

\* C16's case: alice has logged two Work activities: 60 minutes.
C16_Witness ==
    /\ Viz("alice").status = 200
    /\ Viz("alice").distribution["Work"] = 2
    /\ Viz("alice").time_spent["Work"] = 60
    /\ Viz("alice").category_breakdown["Work"].time_spent = 60
    /\ Viz("alice").time_spent["Health"] = 0


\* ------------------------------------- the storage functions, with faults
\* The most direct calls of storage functions in one run.
MaxStoreCalls == 3

\* A parsed JSON document: the shape of a file's content.
EmptyList == [tag |-> "list", key |-> "", val |-> <<>>]
EmptyDict == [tag |-> "dict", key |-> "", val |-> <<>>]
UsersDoc(users) == [tag |-> "dict", key |-> "users", val |-> users]
ListDoc(items) == [tag |-> "list", key |-> "", val |-> items]
DictDoc(members) == [tag |-> "dict", key |-> "", val |-> members]

\* How `with open(path, 'r') as f: json.load(f)` can end apart from the
\* content: the open and the read work, or one of them raises OSError.
ReadOutcomes == {"ok", "read fails"}
\* How `with open(path, 'w') as f: json.dump(doc, f)` can end: both work;
\* open raises (the file is not touched); or open has truncated the file and
\* json.dump raises before the document is complete.
WriteOutcomes == {"ok", "open fails", "dump fails"}

\* What is left of a file when the write stopped part-way: not JSON.
Truncated == [exists |-> TRUE, tag |-> "invalid", key |-> "", val |-> <<>>]

\* open(path, 'r') and json.load(f) on an existing file.
ReadJson(file, rd) ==
    IF rd = "ok" /\ file.tag # "invalid"
    THEN [ok |-> TRUE, doc |-> [tag |-> file.tag, key |-> file.key, val |-> file.val]]
    ELSE [ok |-> FALSE, doc |-> EmptyList]

\* open(path, 'w') and json.dump(doc, f).
WriteJson(file, doc, wr) ==
    CASE wr = "ok" ->
             [ok |-> TRUE,
              file |-> [exists |-> TRUE, tag |-> doc.tag, key |-> doc.key, val |-> doc.val]]
      [] wr = "open fails" -> [ok |-> FALSE, file |-> file]
      [] wr = "dump fails" -> [ok |-> FALSE, file |-> Truncated]

\* save_users(users): every exception is caught and printed.
SaveUsersIO(file, users, wr) ==
    [file |-> WriteJson(file, UsersDoc(users), wr).file, raised |-> FALSE]

\* save_conversations(conversations)
SaveConversationsIO(file, conversations, wr) ==
    [file |-> WriteJson(file, ListDoc(conversations), wr).file, raised |-> FALSE]

\* save_categories(categories)
SaveCategoriesIO(file, categories, wr) ==
    [file |-> WriteJson(file, DictDoc(categories), wr).file, raised |-> FALSE]

\* load_users() that returns the seeded account without saving it.
LoadUsersIOUnsaved(file, t, rd, wr) ==
    IF file.exists
    THEN [file |-> file, raised |-> FALSE, wrote |-> FALSE,
          ret |-> IF ReadJson(file, rd).ok /\ ReadJson(file, rd).doc.tag = "dict"
                     /\ ReadJson(file, rd).doc.key = "users"
                  THEN ListDoc(ReadJson(file, rd).doc.val) ELSE EmptyList]
    ELSE [file |-> file, raised |-> FALSE, wrote |-> FALSE, ret |-> ListDoc(<<DemoUser(t)>>)]
\* load_users(): the file it leaves, what it returns, whether it raised and
\* whether it called save_users.
LoadUsersIO(file, t, rd, wr) ==
    IF file.exists
    THEN LET data == ReadJson(file, rd)
         IN [file |-> file, raised |-> FALSE, wrote |-> FALSE,
             ret |-> IF data.ok /\ data.doc.tag = "dict" /\ data.doc.key = "users"
                     THEN ListDoc(data.doc.val) ELSE EmptyList]
    ELSE [file |-> SaveUsersIO(file, <<DemoUser(t)>>, wr).file, raised |-> FALSE,
          wrote |-> TRUE, ret |-> ListDoc(<<DemoUser(t)>>)]

\* load_conversations() that lets the exception out.
LoadConversationsIORaising(file, rd) ==
    IF file.exists
    THEN [file |-> file, raised |-> ~ReadJson(file, rd).ok, ret |-> ReadJson(file, rd).doc]
    ELSE [file |-> file, raised |-> FALSE, ret |-> EmptyList]
\* load_conversations(): whatever document the file holds; [] when there is
\* no file or an exception was caught.
LoadConversationsIO(file, rd) ==
    IF file.exists
    THEN [file |-> file, raised |-> FALSE,
          ret |-> IF ReadJson(file, rd).ok THEN ReadJson(file, rd).doc ELSE EmptyList]
    ELSE [file |-> file, raised |-> FALSE, ret |-> EmptyList]

\* load_categories(): as load_conversations, with {} for [].
LoadCategoriesIO(file, rd) ==
    IF file.exists
    THEN [file |-> file, raised |-> FALSE,
          ret |-> IF ReadJson(file, rd).ok THEN ReadJson(file, rd).doc ELSE EmptyDict]
    ELSE [file |-> file, raised |-> FALSE, ret |-> EmptyDict]


\* The order in which backup_data copies the files.
BackupNames == <<"users", "conversations", "categories">>

\* Where a backup_data call meets its one failure, if any: nowhere, at
\* os.makedirs, or at the read, the open-for-write or the dump of one file.
\* (The first failure ends the call, so one is all a call can meet.)
BackupOutcomes ==
    {[rd |-> "ok", wr |-> "ok", step |-> "none"],
     [rd |-> "ok", wr |-> "ok", step |-> "makedirs"]}
        \cup {[rd |-> "read fails", wr |-> "ok", step |-> n] : n \in Range(BackupNames)}
        \cup {[rd |-> "ok", wr |-> w, step |-> n] :
                 w \in {"open fails", "dump fails"}, n \in Range(BackupNames)}

\* The copies of the files named, in order, into dir, up to the first
\* exception: ok tells whether the end was reached.
RECURSIVE CopiedFiles(_, _, _, _)
CopiedFiles(dir, names, files, outcome) ==
    IF names = <<>> THEN [ok |-> TRUE, dir |-> dir]
    ELSE LET name == Head(names)
             here == outcome.step = name
             data == ReadJson(files[name], IF here THEN outcome.rd ELSE "ok")
             copy == WriteJson(dir[name], data.doc, IF here THEN outcome.wr ELSE "ok")
         IN IF ~files[name].exists
            THEN CopiedFiles(dir, Tail(names), files, outcome)
            ELSE IF ~data.ok THEN [ok |-> FALSE, dir |-> dir]
            ELSE IF ~copy.ok THEN [ok |-> FALSE, dir |-> [dir EXCEPT ![name] = copy.file]]
            ELSE CopiedFiles([dir EXCEPT ![name] = copy.file], Tail(names), files, outcome)

\* backup_data(): os.makedirs is called before the try block, so its OSError
\* leaves the function; the copies run inside it.
BackupData(files, outcome) ==
    IF outcome.step = "makedirs"
    THEN [raised |-> TRUE, ret |-> FALSE, dir |-> NoDir]
    ELSE LET copied == CopiedFiles([NoDir EXCEPT !.exists = TRUE], BackupNames,
                                   files, outcome)
         IN [raised |-> FALSE, ret |-> copied.ok, dir |-> copied.dir]

\* The three files as the storage functions find them.
Files == [users |-> usersFile, conversations |-> convFile, categories |-> catFile]

NoFault == [rd |-> "ok", wr |-> "ok", step |-> "none"]
NoReturn == [tag |-> "none", key |-> "", val |-> <<>>]
BoolReturn(b) == [tag |-> "bool", key |-> IF b THEN "True" ELSE "False", val |-> <<>>]

\* The record of a finished call.
Called(op, arg, outcome, raised, ret, wrote) ==
    [seq |-> sLast.seq + 1, op |-> op, arg |-> arg, outcome |-> outcome,
     raised |-> raised, ret |-> ret, wrote |-> wrote, before |-> Files]

\* What the storage functions leave alone.
storeFrame == <<now, lastCall, callBit, created, uPc, uReq, uUsers, uOverlap, rtVars,
                actProcVars, callCount, lastAt, handed, voiceVars>>

\* The lists and counters the save functions are handed.
StoreUserLists ==
    {<<>>,
     <<NewUser([username |-> "alice", email |-> "a@x.io", password |-> "pw-1",
                full_name |-> None], 0)>>,
     <<DemoUser(0), NewUser([username |-> "bob", email |-> "b@x.io", password |-> "pw-1",
                             full_name |-> None], 0)>>}
StoreConversationLists ==
    {<<>>, <<TextActivity("alice", "ran 5k", "Work", 0)>>}
StoreCategoryDicts == {<<>>, <<IntEntry("Work", 1)>>}


\* load_users() called directly.  An outcome is drawn only for a file access
\* the call makes.
StoreLoadUsers(rd, wr) ==
    LET r == LoadUsersIO(usersFile, now, rd, wr)
    IN /\ sLast.seq < MaxStoreCalls
       /\ usersFile.exists => wr = "ok"
       /\ ~usersFile.exists => rd = "ok"
       /\ usersFile' = r.file
       /\ sLast' = Called("load_users", <<>>, [rd |-> rd, wr |-> wr, step |-> "none"],
                          r.raised, r.ret, r.wrote)
       /\ UNCHANGED <<storeFrame, convFile, catFile, backupDir>>

\* save_users(users)
StoreSaveUsers(users, wr) ==
    LET r == SaveUsersIO(usersFile, users, wr)
    IN /\ sLast.seq < MaxStoreCalls
       /\ usersFile' = r.file
       /\ sLast' = Called("save_users", users, [rd |-> "ok", wr |-> wr, step |-> "none"],
                          r.raised, NoReturn, TRUE)
       /\ UNCHANGED <<storeFrame, convFile, catFile, backupDir>>

\* load_conversations()
StoreLoadConversations(rd) ==
    LET r == LoadConversationsIO(convFile, rd)
    IN /\ sLast.seq < MaxStoreCalls
       /\ ~convFile.exists => rd = "ok"
       /\ convFile' = r.file
       /\ sLast' = Called("load_conversations", <<>>,
                          [rd |-> rd, wr |-> "ok", step |-> "none"], r.raised, r.ret, FALSE)
       /\ UNCHANGED <<storeFrame, usersFile, catFile, backupDir>>

\* save_conversations(conversations)
StoreSaveConversations(conversations, wr) ==
    LET r == SaveConversationsIO(convFile, conversations, wr)
    IN /\ sLast.seq < MaxStoreCalls
       /\ convFile' = r.file
       /\ sLast' = Called("save_conversations", conversations,
                          [rd |-> "ok", wr |-> wr, step |-> "none"], r.raised, NoReturn, TRUE)
       /\ UNCHANGED <<storeFrame, usersFile, catFile, backupDir>>

\* load_categories()
StoreLoadCategories(rd) ==
    LET r == LoadCategoriesIO(catFile, rd)
    IN /\ sLast.seq < MaxStoreCalls
       /\ ~catFile.exists => rd = "ok"
       /\ catFile' = r.file
       /\ sLast' = Called("load_categories", <<>>,
                          [rd |-> rd, wr |-> "ok", step |-> "none"], r.raised, r.ret, FALSE)
       /\ UNCHANGED <<storeFrame, usersFile, convFile, backupDir>>

\* save_categories(categories)
StoreSaveCategories(categories, wr) ==
    LET r == SaveCategoriesIO(catFile, categories, wr)
    IN /\ sLast.seq < MaxStoreCalls
       /\ catFile' = r.file
       /\ sLast' = Called("save_categories", categories,
                          [rd |-> "ok", wr |-> wr, step |-> "none"], r.raised, NoReturn, TRUE)
       /\ UNCHANGED <<storeFrame, usersFile, convFile, backupDir>>

\* backup_data().  A failure is drawn only at a step the call reaches.
StoreBackupData(outcome) ==
    LET r == BackupData(Files, outcome)
    IN /\ sLast.seq < MaxStoreCalls
       /\ outcome.step \in Range(BackupNames) => Files[outcome.step].exists
       /\ backupDir' = r.dir
       /\ sLast' = Called("backup_data", <<>>, outcome, r.raised, BoolReturn(r.ret), r.dir.exists)
       /\ UNCHANGED <<storeFrame, usersFile, convFile, catFile>>

\* The storage functions on storage that works: no file access fails.
NextStore ==
    \/ StoreLoadUsers("ok", "ok")
    \/ \E users \in StoreUserLists : StoreSaveUsers(users, "ok")
    \/ StoreLoadConversations("ok")
    \/ \E conversations \in StoreConversationLists :
           StoreSaveConversations(conversations, "ok")
    \/ StoreLoadCategories("ok")
    \/ \E categories \in StoreCategoryDicts : StoreSaveCategories(categories, "ok")
    \/ StoreBackupData(NoFault)

SpecStore == Init /\ [][NextStore]_vars

\* The storage functions on storage where any file access may fail.
NextStoreFaulty ==
    \/ \E rd \in ReadOutcomes, wr \in WriteOutcomes : StoreLoadUsers(rd, wr)
    \/ \E users \in StoreUserLists, wr \in WriteOutcomes : StoreSaveUsers(users, wr)
    \/ \E rd \in ReadOutcomes : StoreLoadConversations(rd)
    \/ \E conversations \in StoreConversationLists, wr \in WriteOutcomes :
           StoreSaveConversations(conversations, wr)
    \/ \E rd \in ReadOutcomes : StoreLoadCategories(rd)
    \/ \E categories \in StoreCategoryDicts, wr \in WriteOutcomes :
           StoreSaveCategories(categories, wr)
    \/ \E outcome \in BackupOutcomes : StoreBackupData(outcome)

SpecStoreFaulty == Init /\ [][NextStoreFaulty]_vars


\* --------------------------------------- claims on the storage functions
\* The usernames of a list of user records, in order.
UsernamesOf(users) == [i \in 1..Len(users) |-> users[i].username]

\* C17: on working storage, a load_users call that finds no users file
\* returns the single seeded demo_user account and has, at its return,
\* created the file holding exactly that collection; a load_users call that
\* follows it immediately returns the same usernames, makes no write and
\* leaves the file as it is.
C17_SeedPersistedOnce ==
    [][(sLast'.seq = sLast.seq + 1 /\ sLast'.op = "load_users") =>
          /\ ~usersFile.exists =>
                /\ sLast'.ret = ListDoc(<<DemoUser(now)>>)
                /\ usersFile'.exists /\ sLast'.wrote
                /\ usersFile' = SaveUsers(usersFile, sLast'.ret.val)
                /\ Persisted(usersFile') = sLast'.ret.val
          /\ (sLast.op = "load_users" /\ ~sLast.before.users.exists) =>
                /\ UsernamesOf(sLast'.ret.val) = UsernamesOf(sLast.ret.val)
                /\ ~sLast'.wrote
                /\ usersFile' = usersFile]_vars

\* C17's case: the second of two load_users calls in a row has returned; the
\* first had found no file.
C17_Witness ==
    /\ sLast.seq = 2 /\ sLast.op = "load_users" /\ ~sLast.wrote
    /\ sLast.before.users = SaveUsers(NoFile, <<DemoUser(0)>>)
    /\ usersFile = sLast.before.users
    /\ UsernamesOf(sLast.ret.val) = <<"demo_user">>


\* The file a load function reads, and the empty collection it falls back to.
LoadedFile(op) ==
    CASE op = "load_users" -> "users"
      [] op = "load_conversations" -> "conversations"
      [] op = "load_categories" -> "categories"
EmptyOf(op) == IF op = "load_categories" THEN EmptyDict ELSE EmptyList

\* The call recorded in sLast met a read or a parse failure: the file was
\* there, and it could not be read or did not hold JSON.
ReadFailed ==
    /\ sLast.before[LoadedFile(sLast.op)].exists
    /\ \/ sLast.outcome.rd = "read fails"
       \/ sLast.before[LoadedFile(sLast.op)].tag = "invalid"

\* C18: load_users, load_conversations and load_categories never raise; a
\* call that met a read or parse failure has returned the empty collection
\* ([] or {}) and has left all three files as they were.
C18_LoadsNeverRaise ==
    sLast.op \in {"load_users", "load_conversations", "load_categories"} =>
        /\ ~sLast.raised
        /\ ReadFailed => /\ sLast.ret = EmptyOf(sLast.op)
                         /\ Files = sLast.before

\* C18's case: load_conversations has found a file that is not JSON (a save
\* stopped part-way) and returned [].
C18_Witness ==
    /\ sLast.op = "load_conversations" /\ sLast.before.conversations = Truncated
    /\ sLast.outcome.rd = "ok" /\ ~sLast.raised
    /\ sLast.ret = EmptyList /\ convFile = Truncated

\* C19: save_users(x) never raises, and after it the users file holds either
\* exactly x or exactly what it held before the call.
C19_SaveUsersAllOrNothing ==
    sLast.op = "save_users" =>
        /\ ~sLast.raised
        /\ \/ usersFile = SaveUsers(sLast.before.users, sLast.arg)
           \/ usersFile = sLast.before.users

\* A step of the backup recorded in sLast failed: the one the failure was
\* drawn for, or the parse of a file that is not JSON.
BackupStepFailed ==
    \/ sLast.outcome.step # "none"
    \/ \E n \in Range(BackupNames) :
           sLast.before[n].exists /\ sLast.before[n].tag = "invalid"

\* C20: backup_data never raises; when it returns True the backup location
\* holds a copy of every collection file that existed; when a step failed,
\* the creation of the backup location included, it returns False.
C20_BackupReportsFailure ==
    sLast.op = "backup_data" =>
        /\ ~sLast.raised
        /\ sLast.ret = BoolReturn(TRUE) =>
               /\ backupDir.exists
               /\ \A n \in Range(BackupNames) :
                      sLast.before[n].exists => backupDir[n] = sLast.before[n]
        /\ BackupStepFailed => sLast.ret = BoolReturn(FALSE)


\* ------------- log_text_activity and update_category_metadata on one file
\* POST /log-text where the write of the counters may fail: save_categories
\* catches the exception, so the handler goes on to return success.  The
\* outcome of that write is kept in lastCall.detail.
LogTextActivityIO(user, text, llm, wr) ==
    LET rec == TextActivity(user, text, llm, now)
        conversations == AppendedConv(LoadConversations(convFile), rec)
        stats == BumpedStats(LoadCategories(catFile), rec.category[1])
    IN /\ Len(LoadConversations(convFile)) < MaxActs
       /\ convFile' = SaveConversations(convFile, conversations)
       /\ IF stats.ok
          THEN /\ catFile' = SaveCategoriesIO(catFile, stats.val, wr).file
               /\ lastCall' = [Ok("log_text_activity") EXCEPT !.detail = wr]
          ELSE /\ wr = "ok"
               /\ catFile' = catFile
               /\ lastCall' = [Failed("log_text_activity") EXCEPT !.detail = "TypeError"]
       /\ UNCHANGED <<now, callBit, userVars, rtVars, storeVars, actProcVars, callCount, lastAt>>

\* Both writers of data/categories.json at work, one call at a time.
NextMixed ==
    \/ \E user \in {"alice"}, text \in Texts, llm \in {"Work", "Misc"}, wr \in WriteOutcomes :
           LogTextActivityIO(user, text, llm, wr)
    \/ \E category \in {"Work"}, user_id \in CatOwners, t \in 0..MaxClock :
           UpdateCategoryMetadata(category, user_id, None, t, t, t)
    \/ Tick

SpecMixed == Init /\ [][NextMixed]_vars


\* ---------------------------------------- claims on the two collections
\* The step is a log_text_activity request.
LogTextStep ==
    /\ lastCall'.op = "log_text_activity"
    /\ lastCall' # lastCall \/ convFile' # convFile

\* The record the request built is the last of the stored activities, behind
\* all that were stored before.
ActivityPersisted ==
    /\ Len(LoadConversations(convFile')) = Len(LoadConversations(convFile)) + 1
    /\ IsPrefix(LoadConversations(convFile), LoadConversations(convFile'))
    /\ LoadConversations(convFile')[Len(LoadConversations(convFile'))].kind = "log_text"

\* The stored count of a category: 0 when it has no entry.
Counted(file, category) ==
    IF CatIndex(LoadCategories(file), category) = 0 THEN 0
    ELSE LoadCategories(file)[CatIndex(LoadCategories(file), category)].frequency

\* The category of the record the step stored, and whether its counter went up.
StepCategory == LoadConversations(convFile')[Len(LoadConversations(convFile'))].category[1]
CounterIncremented == Counted(catFile', StepCategory) = Counted(catFile, StepCategory) + 1

\* The stored counter of the category is a structured entry, on which
\* `stats[category] += 1` raises TypeError.
CounterIsStructured(category) ==
    /\ CatIndex(LoadCategories(catFile), category) # 0
    /\ LoadCategories(catFile)[CatIndex(LoadCategories(catFile), category)].kind = "meta"

\* C21 as stated: every log_text_activity request persists its record, and
\* when its counter update then fails (the counter is not incremented) the
\* request returns an error and leaves the counters file as it was.
C21_FailedCountReturnsError ==
    [][LogTextStep =>
          /\ ActivityPersisted
          /\ ~CounterIncremented => lastCall'.status = 500 /\ catFile' = catFile]_vars

\* C21 amended: every log_text_activity request persists its record before
\* it touches the counters.  When `stats[category] += 1` raises, the request
\* returns 500, the record stays and the counters file is as it was; when
\* only the write of the counters fails, save_categories swallows the error
\* and the request returns success although the counter is not incremented;
\* otherwise it returns success and the counter is incremented.  An error is
\* returned in the first case only.
C21_ActivitySavedBeforeCount ==
    [][LogTextStep =>
          /\ ActivityPersisted
          /\ CounterIsStructured(StepCategory) =>
                 /\ lastCall'.status = 500 /\ catFile' = catFile /\ ~CounterIncremented
          /\ (~CounterIsStructured(StepCategory) /\ lastCall'.detail # "ok") =>
                 /\ lastCall'.status = 200 /\ ~CounterIncremented
          /\ (~CounterIsStructured(StepCategory) /\ lastCall'.detail = "ok") =>
                 /\ lastCall'.status = 200 /\ CounterIncremented]_vars

\* C21's case: a log_text_activity request has returned 500 at the counter
\* update; its Work record is stored while the Work counter, a structured
\* entry, still stands at the one update_category_metadata call.
C21_Witness ==
    /\ lastCall = [Failed("log_text_activity") EXCEPT !.detail = "TypeError"]
    /\ Len(LoadConversations(convFile)) = 1
    /\ LoadConversations(convFile)[1].category = Some("Work")
    /\ CounterIsStructured("Work") /\ Counted(catFile, "Work") = 1


\* get_category_stats / get_suggested_categories on the stored counters:
\* `cat_data.get("user_stats", {})` raises AttributeError on a bare count.
CategoryReadersComplete(file) ==
    \A i \in 1..Len(LoadCategories(file)) : LoadCategories(file)[i].kind = "meta"

\* C24: after any sequence of log_text_activity and update_category_metadata
\* calls every value of the counters collection is a structured entry, so
\* the readers complete on it and neither writer has failed on it.
C24_CountersAreStructured ==
    /\ \A i \in 1..Len(LoadCategories(catFile)) :
           /\ LoadCategories(catFile)[i].kind = "meta"
           /\ LoadCategories(catFile)[i].first_seen # None
    /\ CategoryReadersComplete(catFile)
    /\ lastCall.op \in {"log_text_activity", "update_category_metadata"}
           => lastCall.status = 200


\* ---------------------- the auth functions, on storage whose reads may fail
\* The longest collection create_user is given to append to.
MaxCreates == 2

\* get_user_by_username over a load_users whose read may fail.
GetUserByUsernameIO(file, t, username, rd) ==
    LET ld == LoadUsersIO(file, t, rd, "ok")
    IN [file |-> ld.file, ret |-> FirstMatch(ld.ret.val, username)]

\* user.copy() handed on as it is.
WithHash(user) == user
\* user_response = user.copy(); del user_response["hashed_password"]
WithoutHash(user) == [f \in DOMAIN user \ {"hashed_password"} |-> user[f]]

\* bcrypt.checkpw(plain_password, hashed_password)
VerifyPassword(plain_password, hashed_password) ==
    hashed_password = GetPasswordHash(plain_password)

\* for u in users: if u["username"] == username: u["last_login"] = t; break
MarkedLogin(users, username, t) ==
    LET hits == {i \in 1..Len(users) : users[i].username = username}
    IN IF hits = {} THEN users
       ELSE [users EXCEPT ![CHOOSE i \in hits : \A j \in hits : i <= j].last_login = Some(t)]

Answer(op, username, status, detail) ==
    [op |-> op, username |-> username, status |-> status, detail |-> detail]

\* What the auth functions leave alone.
authFrame == <<uPc, uReq, uUsers, uOverlap, rtVars, actVars, catVars, sLast, backupDir,
               voiceVars>>

\* create_user(req): rd1 is the outcome of the read inside the duplicate
\* check, rd2 of the read of `users = load_users()`, wr of save_users.
CreateUserIO(req, t2, rd1, rd2, wr) ==
    LET chk == GetUserByUsernameIO(usersFile, now, req.username, rd1)
        new == NewUser(req, t2)
        ld == LoadUsersIO(chk.file, t2, rd2, "ok")
    IN /\ Len(ld.ret.val) < MaxCreates
       /\ t2 \in now..MaxClock
       /\ ~usersFile.exists => rd1 = "ok"
       /\ now' = t2
       /\ callBit' = 1 - callBit
       /\ UNCHANGED <<authFrame, created>>
       /\ IF chk.ret # None
          THEN /\ rd2 = "ok" /\ wr = "ok"
               /\ usersFile' = chk.file
               /\ lastCall' = Answer("create_user", req.username, 400,
                                     "Username already registered")
               /\ handed' = None
          ELSE /\ usersFile' = SaveUsersIO(ld.file, AppendedUsers(ld.ret.val, new), wr).file
               /\ lastCall' = Answer("create_user", req.username, 200, "")
               /\ handed' = Some(WithoutHash(new))

\* authenticate_user(username, password)
AuthenticateUserIO(username, password, t2, rd1, rd2, wr) ==
    LET chk == GetUserByUsernameIO(usersFile, now, username, rd1)
        ld == LoadUsersIO(chk.file, t2, rd2, "ok")
    IN /\ t2 \in now..MaxClock
       /\ ~usersFile.exists => rd1 = "ok"
       /\ now' = t2
       /\ callBit' = 1 - callBit
       /\ UNCHANGED <<authFrame, created>>
       /\ IF chk.ret = None \/ ~VerifyPassword(password, chk.ret[1].hashed_password)
          THEN \* return None: the login endpoint answers 401
               /\ rd2 = "ok" /\ wr = "ok"
               /\ usersFile' = chk.file
               /\ lastCall' = Answer("authenticate_user", username, 401, "")
               /\ handed' = None
          ELSE /\ usersFile' = SaveUsersIO(ld.file, MarkedLogin(ld.ret.val, username, t2),
                                           wr).file
               /\ lastCall' = Answer("authenticate_user", username, 200, "")
               /\ handed' = Some(WithoutHash(chk.ret[1]))

\* get_current_user(token), username the token's subject.
GetCurrentUserIO(username, rd) ==
    LET chk == GetUserByUsernameIO(usersFile, now, username, rd)
    IN /\ ~usersFile.exists => rd = "ok"
       /\ usersFile' = chk.file
       /\ callBit' = 1 - callBit
       /\ UNCHANGED <<authFrame, created, now>>
       /\ IF chk.ret = None
          THEN /\ lastCall' = Answer("get_current_user", username, 401,
                                     "Could not validate credentials")
               /\ handed' = None
          ELSE /\ lastCall' = Answer("get_current_user", username, 200, "")
               /\ handed' = Some(WithoutHash(chk.ret[1]))

AuthPasswords == {"pw-1", "pw-2"}
AuthRequests == {r \in ConcRequests : r.username # "demo_user"}

NextAuth ==
    \/ \E req \in AuthRequests, rd1 \in ReadOutcomes, rd2 \in ReadOutcomes,
          wr \in WriteOutcomes :
           CreateUserIO(req, now, rd1, rd2, wr)
    \/ \E username \in {"alice"}, password \in AuthPasswords, rd1 \in ReadOutcomes,
          rd2 \in ReadOutcomes, wr \in WriteOutcomes :
           AuthenticateUserIO(username, password, now, rd1, rd2, wr)
    \/ \E username \in {"alice", "demo_user"}, rd \in ReadOutcomes :
           GetCurrentUserIO(username, rd)
    \/ Tick

SpecAuth == Init /\ [][NextAuth]_vars


\* The step is the return of a call of the auth function op.
AuthStep(op) == callBit' # callBit /\ lastCall'.op = op

\* C22: a successful create_user on an existing users file adds exactly one
\* record to the persisted collection and keeps every record persisted before
\* the call, also when the load_users inside it returns its empty fallback.
C22_CreateUserKeepsRecords ==
    [][(AuthStep("create_user") /\ lastCall'.status = 200 /\ usersFile.exists)
       => /\ IsPrefix(Persisted(usersFile), Persisted(usersFile'))
          /\ Len(Persisted(usersFile')) = Len(Persisted(usersFile)) + 1]_vars

\* new is old with nothing but the last_login of records of username changed.
SameButLastLogin(old, new, username) ==
    /\ Len(new) = Len(old)
    /\ \A i \in 1..Len(old) :
           \/ new[i] = old[i]
           \/ /\ old[i].username = username
              /\ new[i] = [old[i] EXCEPT !.last_login = new[i].last_login]

\* C23: on an existing users file, a failed authenticate_user leaves the
\* file as it is, and a successful one removes no record and changes at most
\* the last_login of the authenticated user's record, also when the load_users
\* inside it returns its empty fallback.
C23_AuthenticateOnlyStampsLogin ==
    [][(AuthStep("authenticate_user") /\ usersFile.exists)
       => IF lastCall'.status = 200
          THEN SameButLastLogin(Persisted(usersFile), Persisted(usersFile'),
                                lastCall'.username)
          ELSE usersFile' = usersFile]_vars

\* C30: whatever get_current_user, create_user or authenticate_user hands
\* to the HTTP layer is a user record without the hashed_password field, and
\* every persisted record still has the field.
C30_NoHashHandedOut ==
    /\ Len(handed) = 1 => "hashed_password" \notin DOMAIN handed[1]
    /\ \A i \in 1..Len(Persisted(usersFile)) :
           "hashed_password" \in DOMAIN Persisted(usersFile)[i]

\* C30's case: a login has handed out alice's record, whose persisted
\* original holds her password hash.
C30_Witness ==
    /\ lastCall.op = "authenticate_user"
    /\ Len(handed) = 1
    /\ handed[1].username = "alice"
    /\ \E i \in 1..Len(Persisted(usersFile)) :
           /\ Persisted(usersFile)[i].username = "alice"
           /\ Persisted(usersFile)[i].hashed_password = GetPasswordHash("pw-1")


\* ------------------------------------- the endpoints that return records
\* GET /activities: the stored records the response lists (their order, the
\* sort by timestamp, left aside).
GetActivities(file, username) == Range(OwnedBy(LoadConversations(file), username))

\* GET /activity-history: the records the history and the counts are built
\* from, the caller's records of type "text".
GetActivityHistory(file, username) ==
    {conv \in Range(OwnedBy(LoadConversations(file), username)) : conv.kind = "log_text"}

\* POST /analyze without a timeframe: filtered_convs = conversations, listed
\* under raw_data.activities.  The endpoint takes no current_user.
AnalyzeActivities(file) == Range(LoadConversations(file))

\* POST /query-logs without a timeframe: the records counted in
\* total_activities and category_stats and quoted in the prompt.  The
\* endpoint takes no current_user.
QueryLogs(file, category_filter) ==
    {conv \in Range(LoadConversations(file)) :
        category_filter # None => conv.category = category_filter}

\* C25: whoever calls, every record an endpoint returns or summarises has
\* the caller's username as its user_id.
C25_OnlyTheCallersRecords ==
    \A caller \in ActUsers :
        \A conv \in GetActivities(convFile, caller) \cup GetActivityHistory(convFile, caller)
                    \cup Range(GetConversations(convFile, caller, None, None))
                    \cup Range(OwnedBy(LoadConversations(convFile), caller))
                    \cup AnalyzeActivities(convFile) \cup QueryLogs(convFile, None) :
            conv.user_id = Some(caller)


\* ------------------------------------------------- the voice session handlers
\* The most Conversation objects created in one run.
MaxSessions == 2

\* How `current_user.elevenlabs_key or request.headers.get("X-API-KEY")`
\* can end: the attribute access raises AttributeError (current_user is a
\* dict, as get_current_user returns it), or it yields no key, or a key.
ApiKeyLookups == {"AttributeError", "no key", "key"}
\* How a call into the voice SDK can end.
SdkOutcomes == {"ok", "raises"}
\* How conversation_thread.join(timeout=5) can end.
JoinOutcomes == {"finished", "timeout"}
\* What fetch_conversation_history gives end_conversation to store.
Transcripts == {"none", "user messages"}

\* run_conversation(), the thread's body: conversation.start_session() on
\* whatever the global holds when the thread runs; an exception is printed.
\* A session that was ended stays ended.
RunConversation(ss, held) ==
    IF held = None \/ ss[held[1]].state = "ended"
    THEN ss ELSE [ss EXCEPT ![held[1]].state = "started"]

\* conversation.end_session() that leaves the session running.
EndSessionSkipped(ss, held, outcome) == ss
\* conversation.end_session()
EndSession(ss, held, outcome) ==
    IF outcome = "ok" THEN [ss EXCEPT ![held[1]].state = "ended"] ELSE ss

ThreadAlive == conversation_thread # None /\ threads[conversation_thread[1]] = "alive"

voiceFrame == <<usersFile, now, created, uPc, uReq, uUsers, uOverlap, rtVars, actVars,
                catVars, sLast, backupDir, handed>>

\* POST /start-conversation
StartConversation(lookup, endOut, joinOut, initOut) ==
    LET held == conversation # None
        joined == held /\ endOut = "ok" /\ ThreadAlive /\ joinOut = "finished"
        ended == IF held THEN EndSession(sessions, conversation, endOut) ELSE sessions
        waited == IF joined THEN RunConversation(ended, conversation) ELSE ended
        joinedThreads == IF joined
                         THEN [threads EXCEPT ![conversation_thread[1]] = "done"]
                         ELSE threads
    IN /\ callBit' = 1 - callBit
       /\ UNCHANGED voiceFrame
       /\ IF lookup # "key"
          THEN \* AttributeError, or HTTPException(400): both end in the
               \* handler's `except Exception` as a 500
               /\ endOut = "ok" /\ joinOut = "finished" /\ initOut = "ok"
               /\ lastCall' = Answer("start_conversation", "", 500, lookup)
               /\ UNCHANGED voiceVars
          ELSE /\ ~held => endOut = "ok"
               /\ ~(held /\ endOut = "ok" /\ ThreadAlive) => joinOut = "finished"
               /\ initOut = "ok" => Len(sessions) < MaxSessions
               /\ IF initOut = "ok"
                  THEN /\ sessions' = Append(waited, [state |-> "created"])
                       /\ threads' = Append(joinedThreads, "alive")
                       /\ conversation' = Some(Len(sessions) + 1)
                       /\ conversation_thread' = Some(Len(threads) + 1)
                       /\ lastCall' = Answer("start_conversation", "", 200, "")
                  ELSE /\ sessions' = waited
                       /\ threads' = joinedThreads
                       /\ conversation' = None
                       /\ conversation_thread' = IF held THEN None ELSE conversation_thread
                       /\ lastCall' = Answer("start_conversation", "", 500,
                                             "Failed to initialize conversation")

\* A started thread gets to run its body.
ThreadRun(k) ==
    /\ threads[k] = "alive"
    /\ sessions' = RunConversation(sessions, conversation)
    /\ threads' = [threads EXCEPT ![k] = "done"]
    /\ UNCHANGED <<voiceFrame, lastCall, callBit, conversation, conversation_thread>>

\* conversation = None; conversation_thread = None
HandlesAfterEnd(held) == None

\* POST /end-conversation
EndConversation(lookup, endOut, joinOut, transcript) ==
    LET joined == ThreadAlive /\ joinOut = "finished"
        ended == EndSession(sessions, conversation, endOut)
    IN /\ callBit' = 1 - callBit
       /\ UNCHANGED voiceFrame
       /\ IF conversation = None
          THEN /\ lookup = "key" /\ endOut = "ok" /\ joinOut = "finished"
               /\ transcript = "none"
               /\ lastCall' = Answer("end_conversation", "", 200,
                                     "No active conversation to end")
               /\ UNCHANGED voiceVars
          ELSE IF lookup # "key" \/ endOut = "raises"
          THEN /\ lookup # "key" => endOut = "ok"
               /\ joinOut = "finished" /\ transcript = "none"
               /\ lastCall' = Answer("end_conversation", "", 500,
                                     IF lookup # "key" THEN lookup ELSE "end_session")
               /\ UNCHANGED voiceVars
          ELSE /\ ~ThreadAlive => joinOut = "finished"
               /\ sessions' = IF joined THEN RunConversation(ended, conversation) ELSE ended
               /\ threads' = IF joined
                             THEN [threads EXCEPT ![conversation_thread[1]] = "done"]
                             ELSE threads
               /\ IF transcript = "user messages"
                  THEN \* add_conversation(user_id=..., ...) raises TypeError
                       /\ lastCall' = Answer("end_conversation", "", 500, "TypeError")
                       /\ UNCHANGED <<conversation, conversation_thread>>
                  ELSE /\ lastCall' = Answer("end_conversation", "", 200, "")
                       /\ conversation' = HandlesAfterEnd(conversation)
                       /\ conversation_thread' = HandlesAfterEnd(conversation_thread)

NextVoice ==
    \/ \E lookup \in ApiKeyLookups, endOut \in SdkOutcomes, joinOut \in JoinOutcomes,
          initOut \in SdkOutcomes :
           StartConversation(lookup, endOut, joinOut, initOut)
    \/ \E k \in 1..Len(threads) : ThreadRun(k)
    \/ \E lookup \in ApiKeyLookups, endOut \in SdkOutcomes, joinOut \in JoinOutcomes,
          transcript \in Transcripts :
           EndConversation(lookup, endOut, joinOut, transcript)
    \/ Tick

SpecVoice == Init /\ [][NextVoice]_vars

\* The same handlers while every call into the voice SDK succeeds.
NextVoiceSdkOk ==
    \/ \E lookup \in ApiKeyLookups, joinOut \in JoinOutcomes :
           StartConversation(lookup, "ok", joinOut, "ok")
    \/ \E k \in 1..Len(threads) : ThreadRun(k)
    \/ \E lookup \in ApiKeyLookups, joinOut \in JoinOutcomes, transcript \in Transcripts :
           EndConversation(lookup, "ok", joinOut, transcript)
    \/ Tick

SpecVoiceSdkOk == Init /\ [][NextVoiceSdkOk]_vars


\* The sessions that were started and not ended.
ActiveSessions == {i \in 1..Len(sessions) : sessions[i].state = "started"}

VoiceStep(op) == callBit' # callBit /\ lastCall'.op = op

TotalCalls ==
    callCount[<<"Work", "alice">>] + callCount[<<"Work", "bob">>]
    + callCount[<<"Health", "alice">>] + callCount[<<"Health", "bob">>]
    + callCount[<<"Social", "alice">>] + callCount[<<"Social", "bob">>]

\* update_category_metadata up to its save: load_categories() and the
\* changes made to the loaded copy.
CLoad(p, category, user_id, context) ==
    LET upd == UpdatedCategories(LoadCategories(catFile), category, user_id, context,
                                 now, now, now)
    IN /\ aPc[p] = "idle"
       /\ TotalCalls < MaxCalls
       /\ upd.ok
       /\ aPc' = [aPc EXCEPT ![p] = "updating"]
       /\ aOp' = [aOp EXCEPT ![p] = "update_category_metadata"]
       /\ aStats' = [aStats EXCEPT ![p] = upd.val]
       /\ aRaced' = (aRaced \/ \E q \in AProcs \ {p} : aPc[q] = "updating")
       /\ callCount' = [callCount EXCEPT ![<<category, user_id>>] = @ + 1]
       /\ lastAt' = [lastAt EXCEPT ![<<category, user_id>>] = now]
       /\ UNCHANGED <<now, lastCall, callBit, userVars, rtVars, storeVars, convFile, catFile,
                      aRec, aConvs, aStatus, convBase>>

\* update_category_metadata: save_categories(categories); return cat_data.
CSave(p) ==
    /\ aPc[p] = "updating"
    /\ aPc' = [aPc EXCEPT ![p] = "idle"]
    /\ catFile' = SaveCategories(catFile, aStats[p])
    /\ lastCall' = Ok("update_category_metadata")
    /\ callBit' = 1 - callBit
    /\ UNCHANGED <<now, userVars, rtVars, storeVars, convFile, aOp, aRec, aConvs, aStats,
                   aStatus, aRaced, convBase, callCount, lastAt>>

NextCatConc ==
    \/ \E p \in AProcs, category \in {"Work", "Health"}, user_id \in CatOwners :
           CLoad(p, category, user_id, None)
    \/ \E p \in AProcs : CSave(p)
    \/ Tick

SpecCatConc == Init /\ [][NextCatConc]_vars

\* sum(u["frequency"] for u in user_stats.values())
RECURSIVE SumFrequencies(_)
SumFrequencies(user_stats) ==
    IF user_stats = <<>> THEN 0
    ELSE Head(user_stats).frequency + SumFrequencies(Tail(user_stats))

\* C28: from an empty counters file, whatever update_category_metadata
\* calls ran and however their loads and saves interleaved, every entry of the
\* counters file has a global frequency equal to the sum of the frequencies
\* of its per-user sub-records.
C28_FrequencyIsSumOfUsers ==
    \A i \in 1..Len(LoadCategories(catFile)) :
        LoadCategories(catFile)[i].frequency
            = SumFrequencies(LoadCategories(catFile)[i].user_stats)

\* C28's case: two calls overlapped and one's save overwrote the other's,
\* so the file counts fewer calls than were made, in an entry with two users.
C28_Witness ==
    /\ aRaced
    /\ \A p \in AProcs : aPc[p] = "idle"
    /\ TotalCalls = 3
    /\ Len(LoadCategories(catFile)) = 1
    /\ Len(LoadCategories(catFile)[1].user_stats) = 2
    /\ LoadCategories(catFile)[1].frequency = 2


\* The records of the activities file that log_text_activity stored.
LogTextRecords ==
    {i \in 1..Len(LoadConversations(convFile)) :
        LoadConversations(convFile)[i].kind = "log_text"}

\* C29: for every outcome of the language-model call process_activity_text
\* returns a predefined category, the model's own where that is predefined and
\* 'Personal' otherwise; and every record log_text_activity stored has a
\* predefined category.
C29_LogTextCategoryPredefined ==
    /\ \A text \in Texts, llm \in LlmOutcomes :
           LET category == ProcessActivityText(text, llm, now).category
           IN /\ category \in Predefined
              /\ category = IF llm \in Predefined THEN llm ELSE "Personal"
    /\ \A i \in LogTextRecords :
           /\ LoadConversations(convFile)[i].category # None
           /\ LoadConversations(convFile)[i].category[1] \in Predefined

\* C29's case: log_text_activity has stored one record under the model's
\* category and one under the default.
C29_Witness ==
    /\ LogTextRecords = {1, 2}
    /\ LoadConversations(convFile)[1].category = Some("Work")
    /\ LoadConversations(convFile)[2].category = Some("Personal")
    /\ lastCall.op = "log_text_activity"

====
